---- MODULE Spec2Model ----
(***************************************************************************)
(* LeadFlow: the record mutation pipeline (create / update / status-change *)
(* / CSV import), its validation and authorization rules, the rate limiter *)
(* and the ownership-scoped read queries.                                  *)
(*                                                                         *)
(* A request is a sequence of atomic segments separated by the awaits of   *)
(* its handler: other requests' segments interleave between them.          *)
(***************************************************************************)
EXTENDS Integers, Sequences, FiniteSets, TLC

VARIABLES
    buyers,          \* the buyers table: committed rows, row i has id i
    history,         \* the buyer_history table: committed rows, insertion order
    rateLimitCache,  \* the module-level LRUCache of the buyers actions
    authUsers,       \* the identity provider's users (metadata and email)
    now,             \* the clock, in milliseconds
    pc,              \* per request slot: the segment the request is at
    req,             \* per request slot: the request's local variables
    result,          \* per request slot: outcome of the last finished request
    returned         \* per request slot: rows the last read request returned

vars == <<buyers, history, rateLimitCache, authUsers, now, pc, req, result, returned>>

-----------------------------------------------------------------------------
(* Bounds of the model *)

MaxHistory == 2     \* no mutation starts once this many entries are committed
MaxAdmitted == 2    \* no rate-limited request starts once this many were admitted
MaxTime == 1        \* the clock stops ticking here

Procs == {"p1", "p2"}

-----------------------------------------------------------------------------
(* JavaScript values: a kind and a payload *)

UNDEF == [k |-> "undefined", v |-> 0]
NULLV == [k |-> "null", v |-> 0]
NaNV == [k |-> "nan", v |-> 0]
Str(s) == [k |-> "string", v |-> s]
Num(n) == [k |-> "number", v |-> n]
Arr(a) == [k |-> "array", v |-> a]

\* JavaScript truthiness of a value
Truthy(x) ==
    CASE x.k = "undefined" -> FALSE
      [] x.k = "null" -> FALSE
      [] x.k = "nan" -> FALSE
      [] x.k = "string" -> x.v # ""
      [] x.k = "number" -> x.v # 0
      [] OTHER -> TRUE

\* a || undefined
OrUndefined(x) == IF Truthy(x) THEN x ELSE UNDEF

\* parseInt on the strings the model submits
parseInt(s) ==
    CASE s = "-1" -> Num(-1)
      [] s = "0" -> Num(0)
      [] s = "1" -> Num(1)
      [] s = "2" -> Num(2)
      [] s = "3" -> Num(3)
      [] s = "2px" -> Num(2)
      [] OTHER -> NaNV

\* split(',').map(trim).filter(Boolean) on the strings the model submits
splitTags(s) ==
    CASE s = "" -> <<>>
      [] s = "vip" -> <<"vip">>
      [] s = "vip, hot" -> <<"vip", "hot">>
      [] s = "hot,vip" -> <<"hot", "vip">>
      [] OTHER -> <<s>>

\* JSON.stringify(x) of a field value: undefined has no JSON text
JSONstringify(x) == IF x.k = "undefined" THEN <<FALSE, UNDEF>> ELSE <<TRUE, x>>

\* an element of an array under JSON.stringify: undefined is written as null
JSONelement(x) == IF x.k = "undefined" THEN NULLV ELSE x

\* Date.prototype.toISOString: the text of a timestamp
toISOString(t) == "1970-01-01T00:00:00." \o ToString(t) \o "Z"

-----------------------------------------------------------------------------
(* Enumerations shared by the validation schema and the database *)

citySchema == {"Chandigarh", "Mohali", "Zirakpur", "Panchkula", "Other"}
propertyTypeSchema == {"Apartment", "Villa", "Plot", "Office", "Retail"}
bhkSchema == {"1", "2", "3", "4", "Studio"}
purposeSchema == {"Buy", "Rent"}
timelineSchema == {"0-3m", "3-6m", ">6m", "Exploring"}
sourceSchema == {"Website", "Referral", "Walk-in", "Call", "Other"}
statusSchema == {"New", "Qualified", "Contacted", "Visited", "Negotiation", "Converted", "Dropped"}
statusEnum == {"New", "Qualified", "Contacted", "Visited", "Negotiation", "Converted", "Dropped"}

\* addresses z.string().email() accepts, among the strings the model submits
WellFormedEmail == {"ann@x.io", "bob@x.io"}

fullNameMax == 80
phoneMax == 15
notesMax == 1000

fieldsToCheck ==
    <<"fullName", "email", "phone", "city", "propertyType", "bhk", "purpose",
      "budgetMin", "budgetMax", "timeline", "source", "status", "notes", "tags">>

FieldSet == {fieldsToCheck[i] : i \in 1..Len(fieldsToCheck)}

-----------------------------------------------------------------------------
(* Validation Engine *)

zString(x, lo, hi) == x.k = "string" /\ Len(x.v) >= lo /\ Len(x.v) <= hi

zEnum(x, values) == x.k = "string" /\ x.v \in values

\* the per-field rule of buyerSchema for field f: TRUE when x is accepted
FieldAccepts(f, x) ==
    CASE f = "fullName" -> zString(x, 1, fullNameMax)
      [] f = "email" -> x.k = "undefined" \/ (x.k = "string" /\ (x.v \in WellFormedEmail \/ x.v = ""))
      [] f = "phone" -> zString(x, 1, phoneMax)
      [] f = "city" -> zEnum(x, citySchema)
      [] f = "propertyType" -> zEnum(x, propertyTypeSchema)
      [] f = "bhk" -> x.k = "undefined" \/ zEnum(x, bhkSchema \cup {""})
      [] f = "purpose" -> zEnum(x, purposeSchema)
      [] f = "budgetMin" -> x.k \in {"undefined", "string", "number"}
      [] f = "budgetMax" -> x.k \in {"undefined", "string", "number"}
      [] f = "timeline" -> zEnum(x, timelineSchema)
      [] f = "source" -> zEnum(x, sourceSchema)
      [] f = "status" -> x.k = "undefined" \/ zEnum(x, statusSchema)
      [] f = "notes" -> x.k = "undefined" \/ zString(x, 0, notesMax)
      [] f = "tags" -> x.k \in {"undefined", "array"}
      [] OTHER -> FALSE

\* the transform of the budget fields
budgetTransform(val) ==
    IF ~Truthy(val) THEN UNDEF
    ELSE LET num == IF val.k = "string" THEN parseInt(val.v) ELSE val
         IN IF num.k = "nan" THEN UNDEF ELSE num

\* the transform or default of field f, applied to an accepted value
FieldOutput(f, x) ==
    CASE f \in {"email", "bhk", "notes"} -> IF x = Str("") THEN UNDEF ELSE x
      [] f \in {"budgetMin", "budgetMax"} -> budgetTransform(x)
      [] f = "status" -> IF x.k = "undefined" THEN Str("New") ELSE x
      [] f = "tags" -> IF x.k = "undefined" THEN Arr(<<>>) ELSE x
      [] OTHER -> x

\* the four refinements of buyerSchema, in order; each names the path it cites
\* bhkRefine asking for bhk on Apartment only
bhkRefineApartmentOnly(data) ==
    ~(data.propertyType.v = "Apartment" /\ ~Truthy(data.bhk))

bhkRefine(data) ==
    ~(data.propertyType.v \in {"Apartment", "Villa"} /\ ~Truthy(data.bhk))

\* budgetOrderRefine rejecting equal bounds as well
budgetOrderRefineStrict(data) ==
    ~(Truthy(data.budgetMin) /\ Truthy(data.budgetMax) /\ data.budgetMax.v <= data.budgetMin.v)

budgetOrderRefine(data) ==
    ~(Truthy(data.budgetMin) /\ Truthy(data.budgetMax) /\ data.budgetMax.v < data.budgetMin.v)

budgetMinRefine(data) == ~(data.budgetMin.k # "undefined" /\ data.budgetMin.v <= 0)

budgetMaxRefine(data) == ~(data.budgetMax.k # "undefined" /\ data.budgetMax.v <= 0)

RefineIssues(data) ==
    (IF bhkRefine(data) THEN <<>> ELSE <<"bhk">>)
    \o (IF budgetOrderRefine(data) THEN <<>> ELSE <<"budgetMax">>)
    \o (IF budgetMinRefine(data) THEN <<>> ELSE <<"budgetMin">>)
    \o (IF budgetMaxRefine(data) THEN <<>> ELSE <<"budgetMax">>)

\* the paths of the fields of `fields` (in schema order) whose rule rejects raw
RECURSIVE FieldIssues(_, _, _, _)
FieldIssues(raw, fields, partial, i) ==
    IF i > Len(fieldsToCheck) THEN <<>>
    ELSE LET f == fieldsToCheck[i]
             bad == /\ f \in fields
                    /\ ~(partial /\ raw[f].k = "undefined")
                    /\ ~FieldAccepts(f, raw[f])
         IN (IF bad THEN <<f>> ELSE <<>>) \o FieldIssues(raw, fields, partial, i + 1)

\* the output of an object schema over `fields`: omitted keys are stripped
ObjectOutput(raw, fields, partial) ==
    [f \in FieldSet |->
        IF f \notin fields THEN UNDEF
        ELSE IF partial /\ raw[f].k = "undefined" /\ f \notin {"status", "tags"} THEN UNDEF
        ELSE FieldOutput(f, raw[f])]

\* buyerSchema.safeParse: the refinements run once every field is accepted
buyerSchema(raw) ==
    LET fi == FieldIssues(raw, FieldSet, FALSE, 1)
        data == ObjectOutput(raw, FieldSet, FALSE)
        issues == IF fi # <<>> THEN fi ELSE RefineIssues(data)
    IN [success |-> issues = <<>>, data |-> data, issues |-> issues]

createBuyerSchema(raw) == buyerSchema(raw)

\* a well-formed uuid: lead ids are the positive integers, 0 stands for any other text
zUuid(id) == id >= 1

\* buyerSchema.partial().extend({id, updatedAt}): partial() keeps the field rules
\* and drops the refinements
updateBuyerSchema(raw, id, updatedAt) ==
    LET fi == FieldIssues(raw, FieldSet, TRUE, 1)
        issues == fi \o (IF zUuid(id) THEN <<>> ELSE <<"id">>)
                     \o (IF updatedAt.k \in {"undefined", "string"} THEN <<>> ELSE <<"updatedAt">>)
    IN [success |-> issues = <<>>, data |-> ObjectOutput(raw, FieldSet, TRUE), issues |-> issues]

\* buyerSchema.omit({status, tags}): omit() keeps the other field rules and
\* drops the refinements
csvBuyerSchema(raw) ==
    LET fields == FieldSet \ {"status", "tags"}
        fi == FieldIssues(raw, fields, FALSE, 1)
    IN [success |-> fi = <<>>, data |-> ObjectOutput(raw, fields, FALSE), issues |-> fi]

validateBudgetConstraints(budgetMin, budgetMax) ==
    ~(Truthy(budgetMin) /\ Truthy(budgetMax) /\ budgetMax.v < budgetMin.v)


-----------------------------------------------------------------------------
(* Authorization Policy *)

UserIds == {"u1", "u2", "u3"}

\* the caller a request's session resolves to; "anon" is a request with no session
Sessions == UserIds \cup {"anon"}

demoAdminEmail == "admin@leadflow.com"

\* getCurrentUser() returning null
NoUser == [id |-> "", email |-> "", isAdmin |-> FALSE]

\* getCurrentUser that does not read app_metadata
getCurrentUserNoAppMetadata(session, users) ==
    IF session \notin DOMAIN users THEN NoUser
    ELSE LET user == users[session]
         IN [id |-> session,
             email |-> user.email,
             isAdmin |-> \/ user.user_metadata_role = "admin"
                         \/ user.email = demoAdminEmail]

getCurrentUser(session, users) ==
    IF session \notin DOMAIN users THEN NoUser
    ELSE LET user == users[session]
         IN [id |-> session,
             email |-> user.email,
             isAdmin |-> \/ user.user_metadata_role = "admin"
                         \/ user.app_metadata_role = "admin"
                         \/ user.email = demoAdminEmail]

\* requireAuth() that lets a request without a caller through
requireAuthNever(user) == FALSE

\* requireAuth(): whether it throws 'Authentication required'
requireAuthThrows(user) == user = NoUser

\* canEditBuyer asking for both conditions
canEditBuyerBoth(user, buyerOwnerId) == user.isAdmin /\ user.id = buyerOwnerId

canEditBuyer(user, buyerOwnerId) == user.isAdmin \/ user.id = buyerOwnerId

canViewAllBuyers(user) == user.isAdmin

-----------------------------------------------------------------------------
(* Rate Limiter *)

rateLimitTtl == 60 * 1000
rateLimitMaxRequests == 10
cacheMax == 1000

\* The LRUCache is the sequence of its entries, the least recently used first.
\* the position of a key in the cache, 0 when it holds no entry
cacheIndex(cache, key) ==
    IF \E i \in 1..Len(cache) : cache[i].key = key
    THEN CHOOSE i \in 1..Len(cache) : cache[i].key = key
    ELSE 0

\* an entry older than the ttl
cacheStale(entry, t) == t - entry.start > rateLimitTtl

cacheWithout(cache, i) == SubSeq(cache, 1, i - 1) \o SubSeq(cache, i + 1, Len(cache))

\* LRUCache.get, the value: undefined for a key never set, evicted or older than its ttl
cacheGet(cache, key, t) ==
    LET i == cacheIndex(cache, key)
    IN IF i # 0 /\ ~cacheStale(cache[i], t) THEN Num(cache[i].value) ELSE UNDEF

\* LRUCache.get with updateAgeOnGet: the age of a live entry restarts
cacheAfterGetUpdateAge(cache, key, t) ==
    LET i == cacheIndex(cache, key)
    IN IF i = 0 THEN cache
       ELSE IF cacheStale(cache[i], t) THEN cacheWithout(cache, i)
       ELSE Append(cacheWithout(cache, i), [cache[i] EXCEPT !.start = t])

\* LRUCache.get, the cache after it: a stale entry is deleted, a live one becomes the
\* most recently used
cacheAfterGet(cache, key, t) ==
    LET i == cacheIndex(cache, key)
    IN IF i = 0 THEN cache
       ELSE IF cacheStale(cache[i], t) THEN cacheWithout(cache, i)
       ELSE Append(cacheWithout(cache, i), cache[i])

\* LRUCache.set: the entry's age restarts and it becomes the most recently used; a new
\* key in a full cache evicts the least recently used entry
cacheSet(cache, key, value, t) ==
    LET i == cacheIndex(cache, key)
        entry == [key |-> key, value |-> value, start |-> t]
    IN IF i # 0 THEN Append(cacheWithout(cache, i), entry)
       ELSE IF Len(cache) >= cacheMax THEN Append(Tail(cache), entry)
       ELSE Append(cache, entry)

\* checkRateLimit(userId): whether the request is admitted, and the cache after it
checkRateLimit(cache, userId, t) ==
    LET key == "rate_limit_" \o userId
        got == cacheGet(cache, key, t)
        afterGet == cacheAfterGet(cache, key, t)
        current == IF Truthy(got) THEN got.v ELSE 0
    IN IF current >= rateLimitMaxRequests
       THEN [admitted |-> FALSE, cache |-> afterGet]
       ELSE [admitted |-> TRUE, cache |-> cacheSet(afterGet, key, current + 1, t)]

-----------------------------------------------------------------------------
(* The database schema *)

Columns == FieldSet \cup {"ownerId", "updatedAt", "createdAt"}

NotNullColumns == {"fullName", "phone", "city", "propertyType", "purpose", "timeline", "source", "status"}

\* the value a column takes when an insert leaves it out
ColumnDefault(c) ==
    CASE c = "status" -> Str("New")
      [] c = "tags" -> Arr(<<>>)
      [] OTHER -> NULLV

\* the constraints the buyers table puts on the value of column c
ColumnAccepts(c, x) ==
    /\ c \in NotNullColumns => x.k # "null"
    /\ x.k = "null" \/
       CASE c = "fullName" -> x.k = "string" /\ Len(x.v) <= fullNameMax
         [] c = "phone" -> x.k = "string" /\ Len(x.v) <= phoneMax
         [] c = "city" -> x.k = "string" /\ x.v \in citySchema
         [] c = "propertyType" -> x.k = "string" /\ x.v \in propertyTypeSchema
         [] c = "bhk" -> x.k = "string" /\ x.v \in bhkSchema
         [] c = "purpose" -> x.k = "string" /\ x.v \in purposeSchema
         [] c = "timeline" -> x.k = "string" /\ x.v \in timelineSchema
         [] c = "source" -> x.k = "string" /\ x.v \in sourceSchema
         [] c = "status" -> x.k = "string" /\ x.v \in statusEnum
         [] c \in {"budgetMin", "budgetMax"} -> x.k = "number"
         [] c = "tags" -> x.k = "array"
         [] OTHER -> x.k = "string"

\* insert(buyers).values(values): undefined keys take the column default
InsertRow(values, ownerId, t) ==
    [c \in Columns |->
        CASE c = "ownerId" -> ownerId
          [] c = "updatedAt" -> t
          [] c = "createdAt" -> t
          [] OTHER -> IF values[c].k = "undefined" THEN ColumnDefault(c) ELSE values[c]]

\* UpdateSet with createdAt stamped as well
UpdateSetStampingCreatedAt(values, t) ==
    [c \in {f \in DOMAIN values : values[f].k # "undefined"} \cup {"updatedAt", "createdAt"} |->
        IF c \in {"updatedAt", "createdAt"} THEN t ELSE values[c]]

\* update(buyers).set(values): undefined keys are left out of the SET list,
\* and $onUpdate stamps updatedAt
UpdateSet(values, t) ==
    [c \in {f \in DOMAIN values : values[f].k # "undefined"} \cup {"updatedAt"} |->
        IF c = "updatedAt" THEN t ELSE values[c]]

\* DbAccepts for a status column of type text instead of the enum
DbAcceptsTextStatus(cols) ==
    \A c \in (DOMAIN cols \cap FieldSet) \ {"status"} : ColumnAccepts(c, cols[c])

\* whether the database accepts the column values of a statement
DbAccepts(cols) == \A c \in DOMAIN cols \cap FieldSet : ColumnAccepts(c, cols[c])

\* one staged statement applied to the table
ApplyWrite(bs, w) ==
    IF w.stmt = "insert" THEN Append(bs, w.cols)
    ELSE [bs EXCEPT ![w.id] = [c \in Columns |-> IF c \in DOMAIN w.cols THEN w.cols[c] ELSE @[c]]]

RECURSIVE ApplyWrites(_, _)
ApplyWrites(bs, ws) ==
    IF ws = <<>> THEN bs ELSE ApplyWrites(ApplyWrite(bs, Head(ws)), Tail(ws))

\* a staged history row: ins > 0 names the ins-th row this transaction inserted,
\* whose generated id is known once the row exists
ResolveEntry(e, base) ==
    [buyerId |-> IF e.ins > 0 THEN base + e.ins ELSE e.buyerId,
     changedBy |-> e.changedBy,
     changedAt |-> e.changedAt,
     diff |-> e.diff]

\* COMMIT: every staged statement becomes visible at once
CommitBuyers(bs, ws) == ApplyWrites(bs, ws)

CommitHistory(hs, es, base) == hs \o [i \in 1..Len(es) |-> ResolveEntry(es[i], base)]

\* JSON.stringify of an object: keys whose value is undefined are left out
JSONobject(data) == [f \in {g \in DOMAIN data : data[g].k # "undefined"} |-> data[f]]


\* createdDiff with the fields of the record as the keys of the diff
createdDiffFlat(data) == [f \in DOMAIN JSONobject(data) |-> <<NULLV, data[f]>>]

\* the diff of the history row of createBuyer
createdDiff(data) == [key \in {"created"} |-> <<NULLV, JSONobject(data)>>]


-----------------------------------------------------------------------------
(* Requests *)

\* FormData.get(name): a string, or null when the form has no such entry
formGet(form, name) == IF name \in DOMAIN form THEN Str(form[name]) ELSE NULLV

\* the budget entry of a form as the handlers read it
formBudget(form, name) ==
    LET val == formGet(form, name)
    IN IF Truthy(val) /\ val.v # "" THEN parseInt(val.v) ELSE UNDEF

formTags(form) ==
    LET val == formGet(form, "tags")
    IN IF Truthy(val) THEN Arr(splitTags(val.v)) ELSE Arr(<<>>)

\* rawData of createBuyer (withStatus = FALSE) and of updateBuyer (withStatus = TRUE)
rawData(form, withStatus) ==
    [f \in FieldSet |->
        CASE f \in {"email", "bhk", "notes"} -> OrUndefined(formGet(form, f))
          [] f \in {"budgetMin", "budgetMax"} -> formBudget(form, f)
          [] f = "tags" -> formTags(form)
          [] f = "status" -> IF withStatus THEN formGet(form, f) ELSE UNDEF
          [] OTHER -> formGet(form, f)]

\* the in-memory changes of updateBuyer: tracked fields whose JSON texts differ
computeChanges(currentBuyer, validatedData) ==
    [f \in {g \in FieldSet : JSONstringify(currentBuyer[g]) # JSONstringify(validatedData[g])} |->
        <<currentBuyer[f], validatedData[f]>>]

\* JSON.stringify(changes), as stored in the diff column
JSONchanges(changes) ==
    [f \in DOMAIN changes |-> <<JSONelement(changes[f][1]), JSONelement(changes[f][2])>>]

statusDiff(old, new) == [f \in {"status"} |-> <<old, new>>]

IdleReq ==
    [op |-> "none", user |-> NoUser, buyerId |-> 0, token |-> NULLV, data |-> <<>>,
     status |-> "", changes |-> <<>>, hasChanges |-> FALSE, txStart |-> 0,
     writes |-> <<>>, entries |-> <<>>, rows |-> <<>>]

\* what the last finished call of a slot was and how it ended
NoResult == [op |-> "none", authed |-> FALSE, token |-> NULLV, outcome |-> "none", issues |-> <<>>]

NoRows == [user |-> NoUser, rows |-> <<>>]

\* the request returns or throws: its slot is free again; a ZodError carries the
\* paths of its issues
FinishWith(p, op, authed, outcome, issues) ==
    /\ pc' = [pc EXCEPT ![p] = "idle"]
    /\ req' = [req EXCEPT ![p] = IdleReq]
    /\ result' = [result EXCEPT ![p] = [op |-> op, authed |-> authed, token |-> req[p].token,
                                         outcome |-> outcome, issues |-> issues]]
    /\ returned' = [returned EXCEPT ![p] = NoRows]

Finish(p, op, authed, outcome) == FinishWith(p, op, authed, outcome, <<>>)

\* the request goes on to its next segment
Goto(p, label, r) ==
    /\ pc' = [pc EXCEPT ![p] = label]
    /\ req' = [req EXCEPT ![p] = r]
    /\ result' = [result EXCEPT ![p] = NoResult]
    /\ returned' = [returned EXCEPT ![p] = NoRows]

\* createBuyer up to the start of its transaction
BeginCreate(p, session, form) ==
    /\ pc[p] = "idle"
    /\ LET user == getCurrentUser(session, authUsers)
           rl == checkRateLimit(rateLimitCache, user.id, now)
           parsed == createBuyerSchema(rawData(form, FALSE))
       IN IF requireAuthThrows(user)
          THEN Finish(p, "create", user # NoUser, "Unauthenticated") /\ UNCHANGED rateLimitCache
          ELSE IF ~rl.admitted
          THEN Finish(p, "create", user # NoUser, "RateLimited") /\ rateLimitCache' = rl.cache
          ELSE /\ rateLimitCache' = rl.cache
               /\ IF ~parsed.success
                  THEN FinishWith(p, "create", user # NoUser, "ValidationFailed", parsed.issues)
                  ELSE Goto(p, "tx", [IdleReq EXCEPT !.op = "create", !.user = user,
                                         !.data = parsed.data, !.txStart = now])
    /\ UNCHANGED <<buyers, history, authUsers, now>>

\* updateBuyer up to the select of the current row
BeginUpdate(p, session, form, buyerId, submittedUpdatedAt) ==
    /\ pc[p] = "idle"
    /\ LET user == getCurrentUser(session, authUsers)
           rl == checkRateLimit(rateLimitCache, user.id, now)
           parsed == updateBuyerSchema(rawData(form, TRUE), buyerId, submittedUpdatedAt)
       IN IF requireAuthThrows(user)
          THEN Finish(p, "update", user # NoUser, "Unauthenticated") /\ UNCHANGED rateLimitCache
          ELSE IF ~rl.admitted
          THEN Finish(p, "update", user # NoUser, "RateLimited") /\ rateLimitCache' = rl.cache
          ELSE /\ rateLimitCache' = rl.cache
               /\ IF ~parsed.success
                  THEN FinishWith(p, "update", user # NoUser, "ValidationFailed", parsed.issues)
                  ELSE Goto(p, "load", [IdleReq EXCEPT !.op = "update", !.user = user,
                                           !.buyerId = buyerId, !.token = submittedUpdatedAt,
                                           !.data = parsed.data])
    /\ UNCHANGED <<buyers, history, authUsers, now>>

\* LoadUpdate without the comparison of the submitted token with the row's updatedAt
LoadUpdateUnchecked(p) ==
    /\ pc[p] = "load" /\ req[p].op = "update"
    /\ LET r == req[p]
           found == r.buyerId \in 1..Len(buyers)
           currentBuyer == buyers[r.buyerId]
           changes == computeChanges(currentBuyer, r.data)
       IN IF ~found
          THEN Finish(p, "update", r.user # NoUser, "NotFound")
          ELSE IF ~canEditBuyer(r.user, currentBuyer.ownerId)
          THEN Finish(p, "update", r.user # NoUser, "Forbidden")
          ELSE Goto(p, "tx", [r EXCEPT !.changes = JSONchanges(changes),
                                 !.hasChanges = DOMAIN changes # {},
                                 !.txStart = now])
    /\ UNCHANGED <<buyers, history, rateLimitCache, authUsers, now>>

\* LoadUpdate with the comparison of the token before the check of the caller
LoadUpdateTokenFirst(p) ==
    /\ pc[p] = "load" /\ req[p].op = "update"
    /\ LET r == req[p]
           found == r.buyerId \in 1..Len(buyers)
           currentBuyer == buyers[r.buyerId]
           changes == computeChanges(currentBuyer, r.data)
       IN IF ~found
          THEN Finish(p, "update", r.user # NoUser, "NotFound")
          ELSE IF Truthy(r.token) /\ toISOString(currentBuyer.updatedAt) # r.token.v
          THEN Finish(p, "update", r.user # NoUser, "Conflict")
          ELSE IF ~canEditBuyer(r.user, currentBuyer.ownerId)
          THEN Finish(p, "update", r.user # NoUser, "Forbidden")
          ELSE Goto(p, "tx", [r EXCEPT !.changes = JSONchanges(changes),
                                 !.hasChanges = DOMAIN changes # {},
                                 !.txStart = now])
    /\ UNCHANGED <<buyers, history, rateLimitCache, authUsers, now>>

\* updateBuyer from the result of the select to the start of its transaction
LoadUpdate(p) ==
    /\ pc[p] = "load" /\ req[p].op = "update"
    /\ LET r == req[p]
           found == r.buyerId \in 1..Len(buyers)
           currentBuyer == buyers[r.buyerId]
           changes == computeChanges(currentBuyer, r.data)
       IN IF ~found
          THEN Finish(p, "update", r.user # NoUser, "NotFound")
          ELSE IF ~canEditBuyer(r.user, currentBuyer.ownerId)
          THEN Finish(p, "update", r.user # NoUser, "Forbidden")
          ELSE IF Truthy(r.token) /\ toISOString(currentBuyer.updatedAt) # r.token.v
          THEN Finish(p, "update", r.user # NoUser, "Conflict")
          ELSE Goto(p, "tx", [r EXCEPT !.changes = JSONchanges(changes),
                                 !.hasChanges = DOMAIN changes # {},
                                 !.txStart = now])
    /\ UNCHANGED <<buyers, history, rateLimitCache, authUsers, now>>

\* updateBuyerStatus up to the select of the current row
BeginStatus(p, session, buyerId, status) ==
    /\ pc[p] = "idle"
    /\ LET user == getCurrentUser(session, authUsers)
           rl == checkRateLimit(rateLimitCache, user.id, now)
       IN IF requireAuthThrows(user)
          THEN Finish(p, "status", user # NoUser, "Unauthenticated") /\ UNCHANGED rateLimitCache
          ELSE IF ~rl.admitted
          THEN Finish(p, "status", user # NoUser, "RateLimited") /\ rateLimitCache' = rl.cache
          ELSE /\ rateLimitCache' = rl.cache
               /\ Goto(p, "load", [IdleReq EXCEPT !.op = "status", !.user = user,
                                      !.buyerId = buyerId, !.status = status])
    /\ UNCHANGED <<buyers, history, authUsers, now>>

\* LoadStatus refusing a lead that was changed since its creation
LoadStatusGuarded(p) ==
    /\ pc[p] = "load" /\ req[p].op = "status"
    /\ LET r == req[p]
           found == r.buyerId \in 1..Len(buyers)
           currentBuyer == buyers[r.buyerId]
       IN IF ~found
          THEN Finish(p, "status", r.user # NoUser, "NotFound")
          ELSE IF ~canEditBuyer(r.user, currentBuyer.ownerId)
          THEN Finish(p, "status", r.user # NoUser, "Forbidden")
          ELSE IF currentBuyer.updatedAt # currentBuyer.createdAt
          THEN Finish(p, "status", r.user # NoUser, "Conflict")
          ELSE Goto(p, "tx", [r EXCEPT !.changes = statusDiff(currentBuyer.status, Str(r.status)),
                                 !.hasChanges = TRUE,
                                 !.txStart = now])
    /\ UNCHANGED <<buyers, history, rateLimitCache, authUsers, now>>

\* updateBuyerStatus from the result of the select to the start of its transaction
LoadStatus(p) ==
    /\ pc[p] = "load" /\ req[p].op = "status"
    /\ LET r == req[p]
           found == r.buyerId \in 1..Len(buyers)
           currentBuyer == buyers[r.buyerId]
       IN IF ~found
          THEN Finish(p, "status", r.user # NoUser, "NotFound")
          ELSE IF ~canEditBuyer(r.user, currentBuyer.ownerId)
          THEN Finish(p, "status", r.user # NoUser, "Forbidden")
          ELSE Goto(p, "tx", [r EXCEPT !.changes = statusDiff(currentBuyer.status, Str(r.status)),
                                 !.hasChanges = TRUE,
                                 !.txStart = now])
    /\ UNCHANGED <<buyers, history, rateLimitCache, authUsers, now>>


\* the history row a request writes after its record statement
OwnEntry(r) ==
    CASE r.op = "create" ->
            <<[ins |-> 1, buyerId |-> 0, changedBy |-> r.user.id, changedAt |-> r.txStart,
               diff |-> createdDiff(r.data)]>>
      [] r.op \in {"update", "status"} /\ r.hasChanges ->
            <<[ins |-> 0, buyerId |-> r.buyerId, changedBy |-> r.user.id, changedAt |-> r.txStart,
               diff |-> r.changes]>>
      [] OTHER -> <<>>

\* the record statement of a request, inside its transaction
RecordStatement(r, t) ==
    CASE r.op = "create" -> [stmt |-> "insert", id |-> 0, cols |-> InsertRow(r.data, r.user.id, r.txStart)]
      [] r.op = "update" -> [stmt |-> "update", id |-> r.buyerId, cols |-> UpdateSet(r.data, t)]
      [] r.op = "status" ->
            [stmt |-> "update", id |-> r.buyerId, cols |-> UpdateSet([status |-> Str(r.status)], t)]

\* whether another open transaction has updated row id and not yet ended:
\* its row lock makes a later UPDATE of the row wait
RowLocked(p, id) ==
    \E q \in Procs \ {p} :
        /\ pc[q] = "txh"
        /\ \E i \in 1..Len(req[q].writes) :
              req[q].writes[i].stmt = "update" /\ req[q].writes[i].id = id

\* TxRecord on a connection outside the transaction: the record statement is
\* committed as soon as it has run
TxRecordAutocommit(p) ==
    /\ pc[p] = "tx"
    /\ req[p].op \in {"update", "status"} => ~RowLocked(p, req[p].buyerId)
    /\ \E t \in req[p].txStart..now :
          LET r == req[p]
              w == RecordStatement(r, t)
          IN IF ~DbAccepts(w.cols)
             THEN Finish(p, r.op, r.user # NoUser, "PersistenceFailure") /\ buyers' = buyers
             ELSE Goto(p, "txh", r) /\ buyers' = CommitBuyers(buyers, <<w>>)
    /\ UNCHANGED <<history, rateLimitCache, authUsers, now>>

\* db.transaction: the record statement runs, built by the handler at some time t
\* since the transaction began; a statement the database rejects throws and the
\* transaction is rolled back
TxRecord(p) ==
    /\ pc[p] = "tx"
    /\ req[p].op \in {"update", "status"} => ~RowLocked(p, req[p].buyerId)
    /\ \E t \in req[p].txStart..now :
          LET r == req[p]
              w == RecordStatement(r, t)
          IN IF ~DbAccepts(w.cols)
             THEN Finish(p, r.op, r.user # NoUser, "PersistenceFailure")
             ELSE Goto(p, "txh", [r EXCEPT !.writes = <<w>>])
    /\ UNCHANGED <<buyers, history, rateLimitCache, authUsers, now>>

\* db.transaction: the history statement runs and the transaction commits
TxCommit(p) ==
    /\ pc[p] = "txh"
    /\ LET r == req[p]
           es == IF r.op = "import" THEN r.entries ELSE OwnEntry(r)
       IN /\ buyers' = CommitBuyers(buyers, r.writes)
          /\ history' = CommitHistory(history, es, Len(buyers))
          /\ Finish(p, r.op, r.user # NoUser, "ok")
    /\ UNCHANGED <<rateLimitCache, authUsers, now>>

\* db.transaction: a statement or the connection fails; everything staged is rolled back
TxFail(p) ==
    /\ pc[p] \in {"tx", "itx", "txh"}
    /\ Finish(p, req[p].op, req[p].user # NoUser, "PersistenceFailure")
    /\ UNCHANGED <<buyers, history, rateLimitCache, authUsers, now>>


-----------------------------------------------------------------------------
(* CSV import *)

maxFileSize == 5 * 1024 * 1024
maxImportRows == 200

\* a cell of a parsed row: undefined when the file has no such column
csvGet(row, name) == IF name \in DOMAIN row THEN Str(row[name]) ELSE UNDEF

\* a || b
Or(a, b) == IF Truthy(a) THEN a ELSE b

csvBudget(row, name, alias) ==
    LET cell == Or(csvGet(row, name), csvGet(row, alias))
    IN IF Truthy(cell) THEN parseInt(cell.v) ELSE UNDEF

\* the row as importCSV hands it to the schema and to the insert
transformedRow(row) ==
    [f \in FieldSet |->
        CASE f = "fullName" -> Or(Or(csvGet(row, "fullname"), csvGet(row, "full_name")), Str(""))
          [] f = "email" -> OrUndefined(csvGet(row, "email"))
          [] f = "phone" -> Or(Or(csvGet(row, "phone"), csvGet(row, "phonenumber")), Str(""))
          [] f = "city" -> Or(csvGet(row, "city"), Str(""))
          [] f = "propertyType" -> Or(Or(csvGet(row, "propertytype"), csvGet(row, "property_type")), Str(""))
          [] f = "bhk" -> OrUndefined(csvGet(row, "bhk"))
          [] f = "purpose" -> Or(csvGet(row, "purpose"), Str(""))
          [] f = "budgetMin" -> csvBudget(row, "budgetmin", "budget_min")
          [] f = "budgetMax" -> csvBudget(row, "budgetmax", "budget_max")
          [] f = "timeline" -> Or(csvGet(row, "timeline"), Str(""))
          [] f = "source" -> Or(csvGet(row, "source"), Str(""))
          [] f = "notes" -> OrUndefined(csvGet(row, "notes"))
          [] f = "tags" -> IF Truthy(csvGet(row, "tags")) THEN Arr(splitTags(row["tags"])) ELSE Arr(<<>>)
          [] OTHER -> UNDEF]

\* the indexes of the rows the schema rejects
validationErrors(rows) == {i \in 1..Len(rows) : ~csvBuyerSchema(transformedRow(rows[i])).success}

\* the row limit off by one
tooManyRowsLax(rows) == Len(rows) > maxImportRows + 1

\* rows.length > 200
tooManyRows(rows) == Len(rows) > maxImportRows

importedDiff(tr, ownerId) ==
    [key \in {"created"} |->
        <<NULLV, [f \in DOMAIN JSONobject(tr) \cup {"ownerId"} |-> IF f = "ownerId" THEN Str(ownerId) ELSE tr[f]]>>]

\* importCSV up to the start of its transaction
BeginImport(p, session, file) ==
    /\ pc[p] = "idle"
    /\ LET user == getCurrentUser(session, authUsers)
       IN IF requireAuthThrows(user)
          THEN Finish(p, "import", user # NoUser, "Unauthenticated")
          ELSE IF ~file.present \/ file.size > maxFileSize
          THEN Finish(p, "import", user # NoUser, "Rejected")
          ELSE IF tooManyRows(file.rows)
          THEN Finish(p, "import", user # NoUser, "TooManyRows")
          ELSE IF validationErrors(file.rows) # {}
          THEN Finish(p, "import", user # NoUser, "ValidationFailed")
          ELSE Goto(p, IF file.rows = <<>> THEN "txh" ELSE "itx",
                    [IdleReq EXCEPT !.op = "import", !.user = user, !.rows = file.rows,
                                    !.txStart = now])
    /\ UNCHANGED <<buyers, history, rateLimitCache, authUsers, now>>

\* importCSV, one turn of the loop of its transaction: the row and its history row
ImportRow(p) ==
    /\ pc[p] = "itx"
    /\ LET r == req[p]
           i == Len(r.writes) + 1
           tr == transformedRow(r.rows[i])
           w == [stmt |-> "insert", id |-> 0, cols |-> InsertRow(tr, r.user.id, r.txStart)]
           e == [ins |-> i, buyerId |-> 0, changedBy |-> r.user.id, changedAt |-> r.txStart,
                 diff |-> importedDiff(tr, r.user.id)]
       IN IF ~DbAccepts(w.cols)
          THEN Finish(p, "import", r.user # NoUser, "PersistenceFailure")
          ELSE Goto(p, IF i = Len(r.rows) THEN "txh" ELSE "itx",
                    [r EXCEPT !.writes = Append(@, w), !.entries = Append(@, e)])
    /\ UNCHANGED <<buyers, history, rateLimitCache, authUsers, now>>

-----------------------------------------------------------------------------
(* Reads *)

pageLimit == 10

\* ilike(column, '%pattern%') on the strings the model stores and searches for
ilike(x, pattern) ==
    /\ x.k = "string"
    /\ \/ pattern = "ann" /\ x.v \in {"Ann", "ann@x.io"}
       \/ pattern = "bob" /\ x.v \in {"Bob", "bob@x.io"}
       \/ pattern = "x.io" /\ x.v \in {"ann@x.io", "bob@x.io"}
       \/ pattern = "98" /\ x.v \in {"9876543210"}

\* the where clause without the ownership condition
conditionsUnscoped(user, params, b) ==
    /\ params.search # "" =>
          ilike(b.fullName, params.search) \/ ilike(b.phone, params.search) \/ ilike(b.email, params.search)
    /\ params.city # "" => b.city = Str(params.city)
    /\ params.propertyType # "" => b.propertyType = Str(params.propertyType)
    /\ params.status # "" => b.status = Str(params.status)
    /\ params.timeline # "" => b.timeline = Str(params.timeline)

\* the where clause shared by the list query and the export
conditions(user, params, b) ==
    /\ canViewAllBuyers(user) \/ b.ownerId = user.id
    /\ params.search # "" =>
          ilike(b.fullName, params.search) \/ ilike(b.phone, params.search) \/ ilike(b.email, params.search)
    /\ params.city # "" => b.city = Str(params.city)
    /\ params.propertyType # "" => b.propertyType = Str(params.propertyType)
    /\ params.status # "" => b.status = Str(params.status)
    /\ params.timeline # "" => b.timeline = Str(params.timeline)

\* the ids of seq `ids` ordered by updatedAt descending (insertion sort; ties keep id order)
RECURSIVE InsertByUpdatedAt(_, _, _)
InsertByUpdatedAt(bs, sorted, id) ==
    IF sorted = <<>> THEN <<id>>
    ELSE IF bs[id].updatedAt > bs[Head(sorted)].updatedAt THEN <<id>> \o sorted
    ELSE <<Head(sorted)>> \o InsertByUpdatedAt(bs, Tail(sorted), id)

RECURSIVE OrderByUpdatedAtDesc(_, _, _)
OrderByUpdatedAtDesc(bs, matching, i) ==
    IF i > Len(bs) THEN <<>>
    ELSE IF i \in matching
    THEN InsertByUpdatedAt(bs, OrderByUpdatedAtDesc(bs, matching, i + 1), i)
    ELSE OrderByUpdatedAtDesc(bs, matching, i + 1)

Matching(user, params) == {i \in 1..Len(buyers) : conditions(user, params, buyers[i])}

Rows(ids) == [i \in 1..Len(ids) |-> [id |-> ids[i], row |-> buyers[ids[i]]]]

\* .limit(limit).offset(offset)
LimitOffset(ids, limit, offset) ==
    IF offset >= Len(ids) THEN <<>>
    ELSE SubSeq(ids, offset + 1, IF offset + limit < Len(ids) THEN offset + limit ELSE Len(ids))

Reverse(q) == [i \in 1..Len(q) |-> q[Len(q) + 1 - i]]

\* the list page's query: most recently updated first unless sort asks otherwise
getBuyers(p, session, params) ==
    /\ pc[p] = "idle"
    /\ LET user == getCurrentUser(session, authUsers)
           desc == OrderByUpdatedAtDesc(buyers, Matching(user, params), 1)
           ids == IF params.sort = "updatedAt:asc" THEN Reverse(desc) ELSE desc
           offset == (params.page - 1) * pageLimit
       IN IF user = NoUser
          THEN Finish(p, "list", user # NoUser, "Unauthenticated")
          ELSE /\ pc' = pc /\ req' = req
               /\ result' = [result EXCEPT ![p] = [op |-> "list", authed |-> user # NoUser, token |-> NULLV, outcome |-> "ok", issues |-> <<>>]]
               /\ returned' = [returned EXCEPT ![p] = [user |-> user, rows |-> Rows(LimitOffset(ids, pageLimit, offset))]]
    /\ UNCHANGED <<buyers, history, rateLimitCache, authUsers, now>>

exportCSV(p, session, params) ==
    /\ pc[p] = "idle"
    /\ LET user == getCurrentUser(session, authUsers)
           ids == OrderByUpdatedAtDesc(buyers, Matching(user, params), 1)
       IN IF requireAuthThrows(user)
          THEN Finish(p, "export", user # NoUser, "Unauthenticated")
          ELSE /\ pc' = pc /\ req' = req
               /\ result' = [result EXCEPT ![p] = [op |-> "export", authed |-> user # NoUser, token |-> NULLV, outcome |-> "ok", issues |-> <<>>]]
               /\ returned' = [returned EXCEPT ![p] = [user |-> user, rows |-> Rows(ids)]]
    /\ UNCHANGED <<buyers, history, rateLimitCache, authUsers, now>>

\* the detail page's lookup
getBuyer(p, session, id) ==
    /\ pc[p] = "idle"
    /\ LET user == getCurrentUser(session, authUsers)
           found == {i \in 1..Len(buyers) : i = id /\ (canViewAllBuyers(user) \/ buyers[i].ownerId = user.id)}
       IN IF user = NoUser
          THEN Finish(p, "detail", user # NoUser, "Unauthenticated")
          ELSE IF found = {}
          THEN Finish(p, "detail", user # NoUser, "NotFound")
          ELSE /\ pc' = pc /\ req' = req
               /\ result' = [result EXCEPT ![p] = [op |-> "detail", authed |-> user # NoUser, token |-> NULLV, outcome |-> "ok", issues |-> <<>>]]
               /\ returned' = [returned EXCEPT ![p] = [user |-> user, rows |-> Rows(<<id>>)]]
    /\ UNCHANGED <<buyers, history, rateLimitCache, authUsers, now>>

-----------------------------------------------------------------------------
(* Time *)

Tick ==
    /\ now < MaxTime
    /\ now' = now + 1
    /\ UNCHANGED <<buyers, history, rateLimitCache, authUsers, pc, req, result, returned>>


-----------------------------------------------------------------------------
(* The edit form *)

\* Array.prototype.join(',') on the tag lists the model stores
joinTags(a) ==
    CASE a = <<>> -> ""
      [] a = <<"vip">> -> "vip"
      [] a = <<"vip", "hot">> -> "vip,hot"
      [] OTHER -> "hot,vip"

\* the text of a column value in the edit form: absent values become ''
formText(x) ==
    CASE x.k = "string" -> x.v
      [] x.k = "number" -> ToString(x.v)
      [] x.k = "array" -> joinTags(x.v)
      [] OTHER -> ""

\* the form the detail page submits when the user changes nothing
defaultValues(buyer) == [f \in FieldSet |-> formText(buyer[f])]

-----------------------------------------------------------------------------
(* Initial state and inputs *)

InitUsers ==
    [u \in UserIds |->
        [user_metadata_role |-> IF u = "u3" THEN "admin" ELSE "",
         app_metadata_role |-> "",
         email |-> u \o "@x.io"]]

Init ==
    /\ buyers = <<>>
    /\ history = <<>>
    /\ rateLimitCache = <<>>
    /\ authUsers = InitUsers
    /\ now = 0
    /\ pc = [p \in Procs |-> "idle"]
    /\ req = [p \in Procs |-> IdleReq]
    /\ result = [p \in Procs |-> NoResult]
    /\ returned = [p \in Procs |-> NoRows]

\* a valid create form with every optional field left empty
BaseForm ==
    [fullName |-> "Ann", email |-> "", phone |-> "9876543210", city |-> "Mohali",
     propertyType |-> "Plot", bhk |-> "", purpose |-> "Buy", budgetMin |-> "", budgetMax |-> "",
     timeline |-> "0-3m", source |-> "Website", notes |-> "", tags |-> ""]

FullForm ==
    [BaseForm EXCEPT !.fullName = "Bob", !.email = "bob@x.io", !.propertyType = "Apartment",
                     !.bhk = "2", !.budgetMin = "1", !.budgetMax = "2"]

CreateForms == {BaseForm, FullForm, [FullForm EXCEPT !.bhk = ""]}

\* what a caller may submit from the edit form of a lead: the form unchanged, or one edit
Edits(form) ==
    {form,
     [form EXCEPT !["fullName"] = "Bob"],
     [form EXCEPT !["status"] = "Qualified"],
     [form EXCEPT !["fullName"] = ""]}

BlankUpdateForm == [f \in FieldSet |-> IF f = "status" THEN "New" ELSE BaseForm[f]]

UpdateForms(id) ==
    IF id \in 1..Len(buyers) THEN Edits(defaultValues(buyers[id])) ELSE {BlankUpdateForm}

\* lead ids a request may name: 0 is text that is no uuid, Len(buyers) + 1 a uuid of no lead
Ids == 0..(Len(buyers) + 1)

\* updatedAt tokens a request may carry: none, or the text of a time up to now
Tokens == {Str("")} \cup {Str(toISOString(t)) : t \in 0..now}

Statuses == {"New", "Qualified", "Bogus"}

\* a parsed CSV row, headers normalised
BaseRow ==
    [fullname |-> "Ann", email |-> "", phone |-> "9876543210", city |-> "Mohali",
     propertytype |-> "Plot", bhk |-> "", purpose |-> "Buy", budgetmin |-> "", budgetmax |-> "",
     timeline |-> "0-3m", source |-> "Website", notes |-> "", tags |-> ""]

BadRow == [BaseRow EXCEPT !.city = "Delhi"]

SmallFiles ==
    {[present |-> TRUE, size |-> 100, rows |-> rows] :
        rows \in {<<>>, <<BaseRow>>, <<BaseRow, BaseRow>>, <<BaseRow, BadRow>>}}
    \cup {[present |-> FALSE, size |-> 0, rows |-> <<>>],
          [present |-> TRUE, size |-> maxFileSize + 1, rows |-> <<BaseRow>>]}

NoParams == [page |-> 1, search |-> "", city |-> "", propertyType |-> "", status |-> "", timeline |-> "", sort |-> ""]

Params ==
    {NoParams,
     [NoParams EXCEPT !.search = "ann"],
     [NoParams EXCEPT !.status = "New", !.city = "Mohali"],
     [NoParams EXCEPT !.sort = "updatedAt:asc"],
     [NoParams EXCEPT !.page = 2]}

-----------------------------------------------------------------------------
(* Specification: requests one at a time, every mutation and the export *)

\* requests admitted by the rate limiter so far, over all callers
RECURSIVE SumValues(_, _)
SumValues(cache, keys) ==
    IF keys = {} THEN 0
    ELSE LET k == CHOOSE x \in keys : TRUE
         IN cache[k].value + SumValues(cache, keys \ {k})

Admitted == SumValues(rateLimitCache, DOMAIN rateLimitCache)

\* the workload of the specifications below: no rate-limited request starts once
\* MaxHistory history rows exist or MaxAdmitted requests were admitted
MayStart(p) == pc[p] = "idle" /\ Len(history) < MaxHistory /\ Admitted < MaxAdmitted

\* no import starts once MaxHistory history rows exist
MayImport(p) == pc[p] = "idle" /\ Len(history) < MaxHistory


Step(p) ==
    \/ MayStart(p) /\ \E s \in Sessions, form \in CreateForms : BeginCreate(p, s, form)
    \/ MayStart(p) /\ \E s \in Sessions, id \in Ids, token \in Tokens :
          \E form \in UpdateForms(id) : BeginUpdate(p, s, form, id, token)
    \/ LoadUpdate(p)
    \/ MayStart(p) /\ \E s \in Sessions, id \in Ids, status \in Statuses : BeginStatus(p, s, id, status)
    \/ LoadStatus(p)
    \/ MayImport(p) /\ \E s \in Sessions, file \in SmallFiles : BeginImport(p, s, file)
    \/ ImportRow(p)
    \/ TxRecord(p)
    \/ TxCommit(p)
    \/ TxFail(p)
    \/ \E s \in Sessions, params \in Params : exportCSV(p, s, params)

Next == Step("p1") \/ Tick

Spec == Init /\ [][Next]_vars

-----------------------------------------------------------------------------
(* Specification: the read queries over the leads created so far *)

StepRead(p) ==
    \/ MayStart(p) /\ \E s \in Sessions, form \in CreateForms : BeginCreate(p, s, form)
    \/ TxRecord(p)
    \/ TxCommit(p)
    \/ TxFail(p)
    \/ \E s \in Sessions, params \in Params : getBuyers(p, s, params)
    \/ \E s \in Sessions, params \in Params : exportCSV(p, s, params)
    \/ \E s \in Sessions, id \in Ids : getBuyer(p, s, id)

NextRead == StepRead("p1") \/ Tick

SpecRead == Init /\ [][NextRead]_vars


-----------------------------------------------------------------------------
(* Specification: two concurrent requests on one lead *)

\* the state after u1 imported a file of one row at time 0
InitRace ==
    /\ buyers = <<InsertRow(transformedRow(BaseRow), "u1", 0)>>
    /\ history = <<[buyerId |-> 1, changedBy |-> "u1", changedAt |-> 0,
                    diff |-> importedDiff(transformedRow(BaseRow), "u1")]>>
    /\ rateLimitCache = <<>>
    /\ authUsers = InitUsers
    /\ now = 0
    /\ pc = [p \in Procs |-> "idle"]
    /\ req = [p \in Procs |-> IdleReq]
    /\ result = [p \in Procs |-> NoResult]
    /\ returned = [p \in Procs |-> NoRows]

\* the callers of the race: the lead's owner and another agent
RaceSessions == {"u1", "u2"}

StepRace(p) ==
    \/ MayStart(p) /\ \E s \in RaceSessions, id \in Ids, token \in Tokens :
          \E form \in UpdateForms(id) : BeginUpdate(p, s, form, id, token)
    \/ LoadUpdate(p)
    \/ MayStart(p) /\ \E s \in RaceSessions, id \in Ids, status \in Statuses : BeginStatus(p, s, id, status)
    \/ LoadStatus(p)
    \/ TxRecord(p)
    \/ TxCommit(p)
    \/ TxFail(p)

NextRace == (\E p \in Procs : StepRace(p)) \/ Tick

SpecRace == InitRace /\ [][NextRace]_vars

-----------------------------------------------------------------------------
(* Specification: imports of files up to the row limit and beyond *)

Repeat(row, n) == [i \in 1..n |-> row]

LargeFiles ==
    {[present |-> TRUE, size |-> 100, rows |-> rows] :
        rows \in {<<BaseRow>>,
                  <<BadRow, BaseRow>>,
                  Repeat(BaseRow, maxImportRows),
                  Repeat(BaseRow, maxImportRows + 1),
                  Repeat(BaseRow, maxImportRows - 1) \o <<BadRow>>}}

NextImport ==
    \/ MayImport("p1") /\ \E s \in Sessions, file \in LargeFiles : BeginImport("p1", s, file)
    \/ ImportRow("p1")
    \/ TxCommit("p1")
    \/ TxFail("p1")
    \/ Tick

SpecImport == Init /\ [][NextImport]_vars


-----------------------------------------------------------------------------
(* Specification: a caller at the rate limit while other callers fill the cache *)

\* the n-th of the other agents
Agent(n) == "c" \o ToString(n)

LimiterUsers ==
    [u \in UserIds \cup {Agent(n) : n \in 1..cacheMax} |->
        [user_metadata_role |-> IF u = "u3" THEN "admin" ELSE "",
         app_metadata_role |-> "",
         email |-> u \o "@x.io"]]

\* the state after u1 created rateLimitMaxRequests leads from BaseForm at time 0 and
\* n other agents then made one request each
InitLimiter ==
    LET data == createBuyerSchema(rawData(BaseForm, FALSE)).data
    IN /\ buyers = [i \in 1..rateLimitMaxRequests |-> InsertRow(data, "u1", 0)]
       /\ history = [i \in 1..rateLimitMaxRequests |->
                        [buyerId |-> i, changedBy |-> "u1", changedAt |-> 0, diff |-> createdDiff(data)]]
       /\ \E n \in {0, cacheMax - 1} :
             rateLimitCache =
                 <<[key |-> "rate_limit_u1", value |-> rateLimitMaxRequests, start |-> 0]>>
                 \o [i \in 1..n |-> [key |-> "rate_limit_" \o Agent(i), value |-> 1, start |-> 0]]
       /\ authUsers = LimiterUsers
       /\ now = 0
       /\ pc = [p \in Procs |-> "idle"]
       /\ req = [p \in Procs |-> IdleReq]
       /\ result = [p \in Procs |-> NoResult]
       /\ returned = [p \in Procs |-> NoRows]

\* requests of u1 and of the agent without an entry that the cache counts
AdmittedLimiter ==
    SumValues(rateLimitCache,
              {i \in DOMAIN rateLimitCache :
                  rateLimitCache[i].key \in {"rate_limit_u1", "rate_limit_" \o Agent(cacheMax)}})

\* no request starts once MaxHistory further history rows exist or the cache counts
\* MaxAdmitted further requests
MayStartLimiter(p) ==
    /\ pc[p] = "idle"
    /\ Len(history) < rateLimitMaxRequests + MaxHistory
    /\ AdmittedLimiter < rateLimitMaxRequests + MaxAdmitted

\* the ttl of the cache passes, or one millisecond more, while no request is in flight
Elapse ==
    /\ \A p \in Procs : pc[p] = "idle"
    /\ now < MaxTime * rateLimitTtl
    /\ \E d \in {rateLimitTtl, rateLimitTtl + 1} : now' = now + d
    /\ UNCHANGED <<buyers, history, rateLimitCache, authUsers, pc, req, result, returned>>

\* u1 sends every kind of mutation; an agent with no request yet sends a form that
\* fails validation
StepLimiter(p) ==
    \/ MayStartLimiter(p) /\ BeginCreate(p, "u1", BaseForm)
    \/ MayStartLimiter(p) /\ BeginCreate(p, Agent(cacheMax), [FullForm EXCEPT !.bhk = ""])
    \/ MayStartLimiter(p) /\
          BeginUpdate(p, "u1", [defaultValues(buyers[1]) EXCEPT !["fullName"] = "Bob"], 1, Str(""))
    \/ LoadUpdate(p)
    \/ MayStartLimiter(p) /\ BeginStatus(p, "u1", 1, "Qualified")
    \/ LoadStatus(p)
    \/ MayStartLimiter(p) /\
          BeginImport(p, "u1", [present |-> TRUE, size |-> 100, rows |-> <<BaseRow>>])
    \/ ImportRow(p)
    \/ TxRecord(p)
    \/ TxCommit(p)

NextLimiter == StepLimiter("p1") \/ Elapse

SpecLimiter == InitLimiter /\ [][NextLimiter]_vars

-----------------------------------------------------------------------------
(* Specification: one agent's creates, updates and imports around the bhk and budget rules *)

RuleForms ==
    {BaseForm,
     FullForm,
     [FullForm EXCEPT !.bhk = ""],
     [FullForm EXCEPT !.budgetMin = "3"],
     [BaseForm EXCEPT !.budgetMin = "0"],
     [BaseForm EXCEPT !.budgetMax = "-1"]}

\* the edit form of a lead with one field changed, or none
RuleEdits(form) ==
    {form,
     [form EXCEPT !["propertyType"] = "Apartment"],
     [form EXCEPT !["bhk"] = ""],
     [form EXCEPT !["budgetMin"] = "3"],
     [form EXCEPT !["budgetMin"] = ""],
     [form EXCEPT !["budgetMax"] = "-1"]}

RuleFiles ==
    {[present |-> TRUE, size |-> 100, rows |-> <<row>>] :
        row \in {BaseRow,
                 [BaseRow EXCEPT !.propertytype = "Villa"],
                 [BaseRow EXCEPT !.budgetmin = "2", !.budgetmax = "1"],
                 [BaseRow EXCEPT !.budgetmin = "0"]}}

StepRules(p) ==
    \/ MayStart(p) /\ \E form \in RuleForms : BeginCreate(p, "u1", form)
    \/ MayStart(p) /\ \E id \in 1..Len(buyers) :
          \E form \in RuleEdits(defaultValues(buyers[id])) : BeginUpdate(p, "u1", form, id, Str(""))
    \/ LoadUpdate(p)
    \/ MayImport(p) /\ \E file \in RuleFiles : BeginImport(p, "u1", file)
    \/ ImportRow(p)
    \/ TxRecord(p)
    \/ TxCommit(p)

NextRules == StepRules("p1") \/ Tick

SpecRules == Init /\ [][NextRules]_vars

-----------------------------------------------------------------------------
(* Specification: buyerSchema.safeParse and validateBudgetConstraints on one raw lead *)

\* what a caller may pass as a budget bound
BudgetInputs ==
    {UNDEF, NULLV, Num(-1), Num(0), Num(1), Num(2), Str(""), Str("-1"), Str("0"), Str("2")}

BhkInputs == {UNDEF, Str(""), Str("2")}

\* a raw lead, valid in every field but the four the rules are about
RawLeads ==
    {[rawData(BaseForm, FALSE) EXCEPT !.propertyType = Str(t), !.bhk = b,
                                      !.budgetMin = lo, !.budgetMax = hi] :
        t \in propertyTypeSchema, b \in BhkInputs, lo \in BudgetInputs, hi \in BudgetInputs}

InitValidate ==
    /\ buyers = <<>>
    /\ history = <<>>
    /\ rateLimitCache = <<>>
    /\ authUsers = InitUsers
    /\ now = 0
    /\ pc = [p \in Procs |-> IF p = "p1" THEN "parse" ELSE "idle"]
    /\ \E raw \in RawLeads :
          req = [p \in Procs |-> IF p = "p1" THEN [IdleReq EXCEPT !.data = raw] ELSE IdleReq]
    /\ result = [p \in Procs |-> NoResult]
    /\ returned = [p \in Procs |-> NoRows]

\* buyerSchema.safeParse(raw): the raw lead stays in the slot next to the result
safeParse(p) ==
    /\ pc[p] = "parse"
    /\ LET parsed == buyerSchema(req[p].data)
       IN result' = [result EXCEPT ![p] =
                        [op |-> "safeParse", authed |-> FALSE, token |-> NULLV,
                         outcome |-> IF parsed.success THEN "ok" ELSE "ValidationFailed",
                         issues |-> parsed.issues]]
    /\ pc' = [pc EXCEPT ![p] = "idle"]
    /\ UNCHANGED <<buyers, history, rateLimitCache, authUsers, now, req, returned>>

\* validateBudgetConstraints(budgetMin, budgetMax) on the bounds of the raw lead, where
\* they are of its parameter type number | null | undefined
callValidateBudgetConstraints(p) ==
    /\ pc[p] = "parse"
    /\ req[p].data.budgetMin.k # "string" /\ req[p].data.budgetMax.k # "string"
    /\ result' = [result EXCEPT ![p] =
                     [op |-> "validateBudgetConstraints", authed |-> FALSE, token |-> NULLV,
                      outcome |-> IF validateBudgetConstraints(req[p].data.budgetMin, req[p].data.budgetMax)
                                  THEN "true" ELSE "false",
                      issues |-> <<>>]]
    /\ pc' = [pc EXCEPT ![p] = "idle"]
    /\ UNCHANGED <<buyers, history, rateLimitCache, authUsers, now, req, returned>>

NextValidate == safeParse("p1") \/ callValidateBudgetConstraints("p1")

SpecValidate == InitValidate /\ [][NextValidate]_vars

-----------------------------------------------------------------------------
(* Specification: edits and views of another agent's lead while roles are granted and removed *)

\* the state after u1 imported a file of one row at time 0; u3, an admin by user
\* metadata, has an address of its own or the demo admin address
InitAuth ==
    /\ buyers = <<InsertRow(transformedRow(BaseRow), "u1", 0)>>
    /\ history = <<[buyerId |-> 1, changedBy |-> "u1", changedAt |-> 0,
                    diff |-> importedDiff(transformedRow(BaseRow), "u1")]>>
    /\ rateLimitCache = <<>>
    /\ \E email \in {"u3@x.io", demoAdminEmail} :
          authUsers = [InitUsers EXCEPT !["u3"].email = email]
    /\ now = 0
    /\ pc = [p \in Procs |-> "idle"]
    /\ req = [p \in Procs |-> IdleReq]
    /\ result = [p \in Procs |-> NoResult]
    /\ returned = [p \in Procs |-> NoRows]

\* the callers: two agents who do not own the lead
AuthSessions == {"u2", "u3"}

\* Supabase Dashboard > Authentication > Users: the role of a user's metadata is set
\* or removed
EditUserMetadata(u, role) ==
    /\ authUsers[u].user_metadata_role # role
    /\ authUsers' = [authUsers EXCEPT ![u].user_metadata_role = role]
    /\ UNCHANGED <<buyers, history, rateLimitCache, now, pc, req, result, returned>>

EditAppMetadata(u, role) ==
    /\ authUsers[u].app_metadata_role # role
    /\ authUsers' = [authUsers EXCEPT ![u].app_metadata_role = role]
    /\ UNCHANGED <<buyers, history, rateLimitCache, now, pc, req, result, returned>>

\* no rate-limited request starts once MaxHistory further history rows exist or
\* MaxAdmitted + 1 requests were admitted
MayStartAuth(p) == pc[p] = "idle" /\ Len(history) <= MaxHistory /\ Admitted <= MaxAdmitted

StepAuth(p) ==
    \/ MayStartAuth(p) /\ \E s \in AuthSessions :
          BeginUpdate(p, s, [defaultValues(buyers[1]) EXCEPT !["fullName"] = "Bob"], 1, Str(""))
    \/ LoadUpdate(p)
    \/ MayStartAuth(p) /\ \E s \in AuthSessions : BeginStatus(p, s, 1, "Qualified")
    \/ LoadStatus(p)
    \/ TxRecord(p)
    \/ TxCommit(p)
    \/ \E s \in AuthSessions : getBuyers(p, s, NoParams)
    \/ \E s \in AuthSessions : getBuyer(p, s, 1)

NextAuth ==
    \/ StepAuth("p1")
    \/ \E u \in AuthSessions, role \in {"", "admin"} : EditUserMetadata(u, role)
    \/ \E u \in AuthSessions, role \in {"", "admin"} : EditAppMetadata(u, role)

SpecAuth == InitAuth /\ [][NextAuth]_vars

-----------------------------------------------------------------------------
(* Specification: updateBuyer requests that fail at several stages at once *)

\* the state after u1 imported a file of one row at time 0 and u2 then made n requests
\* that were admitted and wrote nothing
InitOrder ==
    /\ buyers = <<InsertRow(transformedRow(BaseRow), "u1", 0)>>
    /\ history = <<[buyerId |-> 1, changedBy |-> "u1", changedAt |-> 0,
                    diff |-> importedDiff(transformedRow(BaseRow), "u1")]>>
    /\ \E n \in {rateLimitMaxRequests - 1, rateLimitMaxRequests} :
          rateLimitCache = <<[key |-> "rate_limit_u2", value |-> n, start |-> 0]>>
    /\ authUsers = InitUsers
    /\ now = 0
    /\ pc = [p \in Procs |-> "idle"]
    /\ req = [p \in Procs |-> IdleReq]
    /\ result = [p \in Procs |-> NoResult]
    /\ returned = [p \in Procs |-> NoRows]

\* the forms of the requests: the edit form with a new name, and with no name
OrderForms == {[defaultValues(buyers[1]) EXCEPT !["fullName"] = x] : x \in {"Bob", ""}}

\* no request starts once MaxHistory further history rows exist or u1 and u3 were
\* admitted MaxAdmitted times
MayStartOrder(p) ==
    /\ pc[p] = "idle"
    /\ Len(history) <= MaxHistory
    /\ SumValues(rateLimitCache,
                 {i \in DOMAIN rateLimitCache : rateLimitCache[i].key # "rate_limit_u2"}) < MaxAdmitted

\* the callers: nobody, the owner of the lead, and a user who is neither owner nor admin
OrderSessions == {"anon", "u1", "u2"}

\* the lead and a lead that does not exist
OrderIds == {1, Len(buyers) + 1}

\* the updatedAt entry of the form: none, the empty text, the token of the lead as it
\* was imported and the token of the lead as it is now
OrderTokens == {NULLV, Str(""), Str(toISOString(0)), Str(toISOString(buyers[1].updatedAt))}

StepOrder(p) ==
    \/ MayStartOrder(p) /\ \E s \in OrderSessions, form \in OrderForms, id \in OrderIds,
                              token \in OrderTokens :
          BeginUpdate(p, s, form, id, token)
    \/ LoadUpdate(p)
    \/ TxRecord(p)
    \/ TxCommit(p)

NextOrder == StepOrder("p1") \/ Tick

SpecOrder == InitOrder /\ [][NextOrder]_vars

-----------------------------------------------------------------------------
(* Properties of concurrency control on update *)

\* the text of the updatedAt of lead id, as the edit form carries it
currentToken(id) == toISOString(buyers[id].updatedAt)

\* request p is an update that reached its concurrency check with a token that
\* differs from the lead's current updatedAt
StaleAtCheck(p) ==
    /\ pc[p] = "load" /\ req[p].op = "update"
    /\ req[p].buyerId \in 1..Len(buyers)
    /\ canEditBuyer(req[p].user, buyers[req[p].buyerId].ownerId)
    /\ Truthy(req[p].token)
    /\ req[p].token.v # currentToken(req[p].buyerId)

\* C1: an updateBuyer call whose submitted updatedAt token differs from the
\* lead's current updatedAt fails with Conflict and writes nothing: the lead
\* rows (updatedAt included) and the history are as before, and the call ends
\* there, with nothing staged that could later overwrite the lead.
C1_StaleTokenConflicts ==
    [][\A p \in Procs :
          (StaleAtCheck(p) /\ pc'[p] # "load")
          => /\ result'[p].op = "update" /\ result'[p].outcome = "Conflict"
             /\ pc'[p] = "idle" /\ req'[p] = IdleReq
             /\ buyers' = buyers /\ history' = history]_vars

\* C1 witness: an update ended in Conflict after another request had moved the
\* lead's updatedAt away from the token the update carried
C1_Witness ==
    \E p \in Procs :
        /\ result[p].op = "update" /\ result[p].outcome = "Conflict"
        /\ result[p].token = Str(toISOString(0))
        /\ buyers[1].updatedAt = 1

\* C2: first committer wins. When an update carrying token T commits, no other
\* update carrying the same token T has committed and moved the lead's
\* updatedAt away from T: of two updates with the token that was current before
\* either ran, one commits and the other ends in Conflict.
C2_FirstCommitterWins ==
    [][\A p \in Procs :
          (/\ pc[p] = "txh" /\ req[p].op = "update" /\ Truthy(req[p].token)
           /\ result'[p].outcome = "ok")
          => ~\E q \in Procs \ {p} :
                /\ result[q].op = "update" /\ result[q].outcome = "ok"
                /\ result[q].token = req[p].token
                /\ req[p].token.v # currentToken(req[p].buyerId)]_vars

-----------------------------------------------------------------------------
(* Properties of the history written by update and status-change *)

\* a value that is no value: null in a row, undefined in validated data
Absent(x) == x.k \in {"undefined", "null"}

SameValue(x, y) == (Absent(x) /\ Absent(y)) \/ x = y

\* request p is an update whose validated values are, field for field, the
\* current values of the lead it names
IdenticalUpdate(p) ==
    /\ req[p].op = "update"
    /\ req[p].buyerId \in 1..Len(buyers)
    /\ \A f \in FieldSet : SameValue(buyers[req[p].buyerId][f], req[p].data[f])

\* request p ends its transaction with a commit in this step
Commits(p) == pc[p] = "txh" /\ pc'[p] = "idle" /\ result'[p].outcome = "ok"

\* C3: an updateBuyer call whose submitted values are field for field the
\* lead's current values appends no history entry, whether or not the lead's
\* optional fields (email, bhk, budgetMin, budgetMax, notes) are absent.
C3_IdenticalUpdateNoHistory ==
    [][\A p \in Procs : (Commits(p) /\ IdenticalUpdate(p)) => history' = history]_vars

\* C4: an update or status-change appends one history entry when it changes
\* at least one field of the lead and none when it changes nothing (so a
\* status-change to the status the lead already has appends none), and no
\* stored diff has a field whose old and new values are equal.
C4_HistoryOnlyOnChange ==
    [][\A p \in Procs :
          (Commits(p) /\ req[p].op \in {"update", "status"})
          => LET id == req[p].buyerId
                 changed == \E f \in FieldSet : ~SameValue(buyers'[id][f], buyers[id][f])
             IN /\ changed => Len(history') = Len(history) + 1
                /\ ~changed => history' = history
                /\ \A i \in 1..Len(history') :
                      \A f \in DOMAIN history'[i].diff \ {"created"} :
                          history'[i].diff[f][1] # history'[i].diff[f][2]]_vars

\* C5: a successful status-change of a lead whose status is s1 to status s2
\* appends exactly one history entry, with diff {status: [s1, s2]} and no
\* other field, sets the lead's status to s2 and leaves every other
\* descriptive field of the lead and every other lead as it was.
C5_StatusChangeEffect ==
    [][\A p \in Procs :
          (Commits(p) /\ req[p].op = "status")
          => LET id == req[p].buyerId
                 s1 == buyers[id].status
                 s2 == Str(req[p].status)
                 n == Len(history)
             IN /\ Len(history') = n + 1
                /\ SubSeq(history', 1, n) = history
                /\ history'[n + 1].buyerId = id
                /\ history'[n + 1].diff = [f \in {"status"} |-> <<s1, s2>>]
                /\ buyers'[id].status = s2
                /\ \A f \in FieldSet \ {"status"} : buyers'[id][f] = buyers[id][f]
                /\ Len(buyers') = Len(buyers)
                /\ \A j \in (1..Len(buyers)) \ {id} : buyers'[j] = buyers[j]]_vars

-----------------------------------------------------------------------------
(* Properties of the commit *)

\* the history entries that record the creation of lead i
CreatedEntries(hs, i) == {j \in 1..Len(hs) : hs[j].buyerId = i /\ "created" \in DOMAIN hs[j].diff}

\* the history entries the transaction of request r is to write
EntriesDue(r) ==
    CASE r.op = "create" -> 1
      [] r.op = "import" -> Len(r.rows)
      [] r.op = "status" -> 1
      [] r.op = "update" -> IF r.changes = <<>> THEN 0 ELSE 1
      [] OTHER -> 0

\* the k-th statement of r's transaction is in effect in the table bs2 that
\* follows the table bs
InEffect(r, k, bs, bs2) ==
    LET w == r.writes[k]
    IN IF w.stmt = "insert"
       THEN bs2[Len(bs) + k] = w.cols
       ELSE \A c \in DOMAIN w.cols : bs2[w.id][c] = w.cols[c]

\* C6: the commit of create, update, status-change and import is atomic. The
\* tables change only in the one step in which a transaction commits, and
\* that step makes all its record writes and all its history entries visible
\* together; a transaction that ends in a persistence failure, at whatever
\* point, leaves the tables as they were; every lead visible has its creation
\* entry visible.
C6_CommitAtomic ==
    [][/\ (buyers' # buyers \/ history' # history)
          => \E p \in Procs :
                /\ Commits(p)
                /\ req[p].writes # <<>>
                /\ \A k \in 1..Len(req[p].writes) : InEffect(req[p], k, buyers, buyers')
                /\ Len(history') = Len(history) + EntriesDue(req[p])
                /\ SubSeq(history', 1, Len(history)) = history
       /\ \A p \in Procs :
             (pc[p] # "idle" /\ result'[p].outcome = "PersistenceFailure")
             => buyers' = buyers /\ history' = history
       /\ \A i \in 1..Len(buyers') : Cardinality(CreatedEntries(history', i)) = 1]_vars

\* C6 witness: a transaction has run its record statement and not yet its
\* history statement, and neither write is visible
C6_Witness ==
    \E p \in Procs :
        /\ pc[p] = "txh" /\ req[p].op = "create" /\ Len(req[p].writes) = 1
        /\ buyers = <<>> /\ history = <<>>

-----------------------------------------------------------------------------
(* Properties of the import *)

\* the files a request may upload, in either specification
Files == SmallFiles \cup LargeFiles

\* the schema rejects at least one row of the file
SomeRowInvalid(rows) == \E i \in 1..Len(rows) : ~csvBuyerSchema(transformedRow(rows[i])).success

\* C7: importCSV is all or nothing. Every row is validated before the
\* transaction begins; a file of more than 200 rows, or with at least one row
\* the schema rejects, is refused and no lead and no history entry is
\* inserted; while the rows of an accepted file are being written none is
\* visible; and the commit inserts every row, in order, each with one
\* history entry of its creation.
C7_ImportAllOrNothing ==
    [][/\ \A p \in Procs, s \in UserIds, file \in Files :
             (/\ pc[p] = "idle" /\ (pc'[p] # "idle" \/ result'[p] # result[p])
              /\ file.present /\ file.size <= maxFileSize
              /\ BeginImport(p, s, file))
             => /\ buyers' = buyers /\ history' = history
                /\ IF Len(file.rows) > 200 \/ SomeRowInvalid(file.rows)
                   THEN /\ pc'[p] = "idle"
                        /\ result'[p].outcome \in {"TooManyRows", "ValidationFailed"}
                   ELSE /\ pc'[p] \in {"itx", "txh"}
                        /\ req'[p].rows = file.rows
       /\ \A p \in Procs :
             pc[p] = "itx" => buyers' = buyers /\ history' = history
       /\ \A p \in Procs :
             (Commits(p) /\ req[p].op = "import")
             => LET rows == req[p].rows
                    b == Len(buyers)
                    h == Len(history)
                IN /\ Len(buyers') = b + Len(rows)
                   /\ Len(history') = h + Len(rows)
                   /\ SubSeq(buyers', 1, b) = buyers
                   /\ SubSeq(history', 1, h) = history
                   /\ \A i \in 1..Len(rows) :
                         /\ buyers'[b + i].fullName = transformedRow(rows[i]).fullName
                         /\ buyers'[b + i].ownerId = req[p].user.id
                         /\ history'[h + i].buyerId = b + i
                         /\ DOMAIN history'[h + i].diff = {"created"}]_vars

\* C7 witness: a file of exactly 200 valid rows was imported whole
C7_Witness ==
    \E p \in Procs :
        /\ result[p].op = "import" /\ result[p].outcome = "ok"
        /\ Len(buyers) = 200 /\ Len(history) = 200

-----------------------------------------------------------------------------
(* Properties of ownership and authorization *)

\* C8: every row the list query, the CSV export and the detail lookup return
\* to a caller who is no admin has that caller as its owner, whatever the
\* search, filter, sort and page parameters and whatever other owners' leads
\* match them.
C8_ReadsOwnershipScoped ==
    \A p \in Procs :
        ~returned[p].user.isAdmin
        => \A i \in 1..Len(returned[p].rows) :
              returned[p].rows[i].row.ownerId = returned[p].user.id

\* C8 witness: a caller who is no admin got exactly their own lead while a
\* lead of another owner, which the same parameters match, is stored
C8_Witness ==
    \E p \in Procs :
        /\ result[p].op \in {"list", "export"} /\ result[p].outcome = "ok"
        /\ ~returned[p].user.isAdmin
        /\ Len(returned[p].rows) = 1
        /\ Len(buyers) = 2
        /\ \E i \in 1..2 : buyers[i].ownerId # returned[p].user.id

\* the caller a session resolves to
Caller(s) == getCurrentUser(s, authUsers)

\* C9: canEditBuyer(caller, ownerId) is true iff the caller is the owner or an
\* admin, in each of the four cases; updateBuyer and updateBuyerStatus by a
\* caller who is neither end in Forbidden with the lead and its history as
\* they were, and a lead is modified by them only for a caller who is one.
C9_EditAuthorization ==
    [][/\ canEditBuyer(Caller("u1"), "u1")
       /\ ~canEditBuyer(Caller("u2"), "u1")
       /\ canEditBuyer(Caller("u3"), "u1")
       /\ canEditBuyer(Caller("u3"), "u3")
       /\ \A s \in UserIds, o \in UserIds :
             canEditBuyer(Caller(s), o) <=> (s = o \/ Caller(s).isAdmin)
       /\ \A p \in Procs :
             (/\ pc[p] = "load" /\ pc'[p] # "load"
              /\ req[p].buyerId \in 1..Len(buyers)
              /\ ~req[p].user.isAdmin
              /\ req[p].user.id # buyers[req[p].buyerId].ownerId)
             => /\ result'[p].outcome = "Forbidden" /\ pc'[p] = "idle"
                /\ req'[p] = IdleReq
                /\ buyers' = buyers /\ history' = history
       /\ \A p \in Procs :
             (Commits(p) /\ req[p].op \in {"update", "status"})
             => \/ req[p].user.isAdmin
                \/ req[p].user.id = buyers[req[p].buyerId].ownerId]_vars

\* C9 witness: an edit by a caller who is neither owner nor admin ended in
\* Forbidden
C9_Witness ==
    \E p \in Procs :
        /\ result[p].op \in {"update", "status"} /\ result[p].outcome = "Forbidden"
        /\ Len(buyers) = 1 /\ Len(history) = 1

\* the operations that begin with requireAuth()
RequireAuthOps == {"create", "update", "status", "import", "export"}

\* C10: a createBuyer, updateBuyer, updateBuyerStatus, importCSV or exportCSV
\* request with no resolved caller ends with the authentication error before
\* anything else is reached: the rate-limit counters, the leads and the
\* history stay as they were and no row is returned; no request without a
\* caller is ever past its first step.
C10_UnauthenticatedFailsClosed ==
    [][\A p \in Procs :
          /\ (pc'[p] # "idle") => req'[p].user # NoUser
          /\ (/\ result'[p] # result[p]
              /\ result'[p].op \in RequireAuthOps
              /\ ~result'[p].authed)
             => /\ result'[p].outcome = "Unauthenticated"
                /\ pc[p] = "idle" /\ pc'[p] = "idle"
                /\ rateLimitCache' = rateLimitCache
                /\ buyers' = buyers /\ history' = history
                /\ returned'[p] = NoRows]_vars

\* C10 witness: an export without a caller was refused after leads were stored
C10_Witness ==
    \E p \in Procs :
        /\ result[p].op = "export" /\ ~result[p].authed
        /\ result[p].outcome = "Unauthenticated"
        /\ Len(buyers) > 0

-----------------------------------------------------------------------------
(* Properties of the rate limiter *)

\* a history row written by createBuyer, updateBuyer or updateBuyerStatus: the rows of
\* importCSV are those whose created record carries ownerId
ByLimitedRequest(h) ==
    ~("created" \in DOMAIN h.diff /\ "ownerId" \in DOMAIN h.diff["created"][2])

\* the history rows of rate-limited requests of the caller of row i, in the minute
\* that starts with row i
SameWindow(i) ==
    {j \in 1..Len(history) :
        /\ ByLimitedRequest(history[j])
        /\ history[j].changedBy = history[i].changedBy
        /\ history[j].changedAt >= history[i].changedAt
        /\ history[j].changedAt < history[i].changedAt + rateLimitTtl}

\* C11: for every caller and every one-minute window, at most rateLimitMaxRequests
\* create, update and status-change requests of that caller are admitted; as every
\* committed create and status change leaves one history row stamped with its
\* transaction's start, no caller has more than rateLimitMaxRequests such rows in a minute.
C11_WindowBound ==
    \A i \in 1..Len(history) :
        ByLimitedRequest(history[i]) => Cardinality(SameWindow(i)) <= rateLimitMaxRequests

\* the caller's count has reached the threshold: what checkRateLimit would read now
AtThreshold(userId) ==
    LET got == cacheGet(rateLimitCache, "rate_limit_" \o userId, now)
    IN Truthy(got) /\ got.v >= rateLimitMaxRequests

\* C12: every mutation request passes the rate limiter after authentication and before
\* validation or any write, on the create, update, status-change and import paths: no
\* request of a caller whose count has reached the threshold goes on to its
\* transaction, so such a caller persists no lead and no history row.
C12_LimiterOnEveryPath ==
    [][\A p \in Procs :
          pc[p] = "idle" /\ pc'[p] # "idle" => ~AtThreshold(req'[p].user.id)]_vars

-----------------------------------------------------------------------------
(* Properties of the persisted leads *)

\* C13: updatedAt strictly increases on every successful mutation: each committed
\* updateBuyer, also one that changes no field, and each committed updateBuyerStatus
\* leaves the lead's updatedAt later than it was before the commit.
C13_UpdatedAtIncreases ==
    [][\A p \in Procs :
          Commits(p) /\ req[p].op \in {"update", "status"} =>
              buyers'[req[p].buyerId].updatedAt > buyers[req[p].buyerId].updatedAt]_vars

\* a column that holds a value
Present(x) == x.k \notin {"undefined", "null"}

\* C14: every persisted lead that has both budget bounds has budgetMax >= budgetMin,
\* and each bound a lead has is a positive integer, after any sequence of creates,
\* imports and updates.
C14_BudgetsOrderedAndPositive ==
    \A i \in 1..Len(buyers) :
        LET b == buyers[i]
        IN /\ Present(b.budgetMin) => b.budgetMin.k = "number" /\ b.budgetMin.v > 0
           /\ Present(b.budgetMax) => b.budgetMax.k = "number" /\ b.budgetMax.v > 0
           /\ Present(b.budgetMin) /\ Present(b.budgetMax) => b.budgetMax.v >= b.budgetMin.v

\* C15: every persisted lead whose propertyType is Apartment or Villa has a bhk, after
\* any sequence of creates, imports and updates.
C15_BhkForApartmentAndVilla ==
    \A i \in 1..Len(buyers) :
        buyers[i].propertyType.v \in {"Apartment", "Villa"} => Present(buyers[i].bhk)

-----------------------------------------------------------------------------
(* Properties of validation *)

\* the raw lead is valid but for the bhk rule: as a Plot it is accepted
ValidButForBhk(raw) == buyerSchema([raw EXCEPT !.propertyType = Str("Plot")]).success

\* C16: validation of an otherwise valid lead fails, citing bhk, when propertyType is
\* Apartment or Villa and bhk is absent (not given, or the empty text); when
\* propertyType is Plot, Office or Retail it succeeds with or without bhk.
C16_BhkRule ==
    \A p \in Procs :
        result[p].op = "safeParse" /\ ValidButForBhk(req[p].data) =>
            LET raw == req[p].data
            IN /\ raw.propertyType.v \in {"Apartment", "Villa"} /\ raw.bhk \in {UNDEF, Str("")} =>
                      result[p].outcome = "ValidationFailed" /\ result[p].issues = <<"bhk">>
               /\ raw.propertyType.v \in {"Plot", "Office", "Retail"} => result[p].outcome = "ok"

\* an otherwise valid Villa without bhk was validated and rejected citing bhk
C16_Witness ==
    /\ result["p1"].op = "safeParse"
    /\ ValidButForBhk(req["p1"].data)
    /\ req["p1"].data.propertyType = Str("Villa")
    /\ req["p1"].data.bhk = UNDEF
    /\ result["p1"].issues = <<"bhk">>

\* a bound the caller supplied: a number, or a text that is not empty
Supplied(x) == x.k = "number" \/ (x.k = "string" /\ x.v # "")

\* a bound the caller left out
NotSupplied(x) == x \in {UNDEF, Str("")}

\* the number a supplied bound stands for
BudgetValue(x) == IF x.k = "number" THEN x.v ELSE parseInt(x.v).v

PositiveBound(x) == Supplied(x) /\ BudgetValue(x) > 0

\* the raw lead is valid but for its budget bounds: without them it is accepted
ValidButForBudgets(raw) == buyerSchema([raw EXCEPT !.budgetMin = UNDEF, !.budgetMax = UNDEF]).success

\* C17: on an otherwise valid lead with both bounds present (each a positive number or
\* numeric text), validation fails, citing budgetMax, exactly when budgetMax < budgetMin,
\* and so succeeds when they are equal; with one bound or neither present it succeeds.
\* validateBudgetConstraints returns false exactly when both bounds are present and
\* budgetMax < budgetMin, and true when one or neither is present.
C17_BudgetOrderRule ==
    \A p \in Procs :
        LET raw == req[p].data
            lo == raw.budgetMin
            hi == raw.budgetMax
        IN /\ result[p].op = "safeParse" /\ ValidButForBudgets(raw) =>
                /\ PositiveBound(lo) /\ PositiveBound(hi) =>
                      /\ result[p].outcome = "ValidationFailed" <=> BudgetValue(hi) < BudgetValue(lo)
                      /\ result[p].outcome = "ValidationFailed" => result[p].issues = <<"budgetMax">>
                /\ \/ NotSupplied(lo) /\ (NotSupplied(hi) \/ PositiveBound(hi))
                   \/ NotSupplied(hi) /\ PositiveBound(lo)
                   => result[p].outcome = "ok"
           /\ result[p].op = "validateBudgetConstraints" =>
                /\ PositiveBound(lo) /\ PositiveBound(hi) =>
                      (result[p].outcome = "false" <=> hi.v < lo.v)
                /\ Absent(lo) \/ Absent(hi) => result[p].outcome = "true"

\* an otherwise valid lead with budgetMin 2 and budgetMax 1 was validated and rejected
\* citing budgetMax
C17_Witness ==
    /\ result["p1"].op = "safeParse"
    /\ ValidButForBudgets(req["p1"].data)
    /\ req["p1"].data.budgetMin = Num(2)
    /\ req["p1"].data.budgetMax = Num(1)
    /\ result["p1"].issues = <<"budgetMax">>

\* C18: validation fails for every lead whose budgetMin or budgetMax is supplied as
\* zero or a negative value, as a number or as numeric text, whatever the other bound
\* is, so that no request carrying such a budget is accepted.
C18_NonPositiveBudgetFails ==
    \A p \in Procs :
        LET raw == req[p].data
        IN /\ result[p].op = "safeParse"
           /\ \/ Supplied(raw.budgetMin) /\ BudgetValue(raw.budgetMin) <= 0
              \/ Supplied(raw.budgetMax) /\ BudgetValue(raw.budgetMax) <= 0
           => result[p].outcome = "ValidationFailed"

-----------------------------------------------------------------------------
(* Properties of creation *)

\* the history rows of lead i, by position in the table
LeadEntries(hs, i) == {j \in 1..Len(hs) : hs[j].buyerId = i}

\* a history row of the creation of a lead: the single key created, with null first
IsCreatedEntry(h) == DOMAIN h.diff = {"created"} /\ h.diff["created"][1] = NULLV

\* the record of a created entry tells lead b in full: each descriptive field it names
\* has the value of the lead, and each one it leaves out has the column's default
FullRecord(rec, b) ==
    \A f \in FieldSet :
        IF f \in DOMAIN rec THEN rec[f] = b[f] ELSE b[f] = ColumnDefault(f)

\* each lead has exactly one created entry, written by its owner at its creation time,
\* and it is the earliest row of the lead's history
CreatedEntryFirst ==
    \A i \in 1..Len(buyers) :
        /\ LeadEntries(history, i) # {}
        /\ LET first == CHOOSE j \in LeadEntries(history, i) : \A k \in LeadEntries(history, i) : j <= k
           IN /\ IsCreatedEntry(history[first])
              /\ history[first].changedBy = buyers[i].ownerId
              /\ history[first].changedAt = buyers[i].createdAt
              /\ \A k \in LeadEntries(history, i) \ {first} :
                    /\ "created" \notin DOMAIN history[k].diff
                    /\ history[k].changedAt >= history[first].changedAt

\* a commit of createBuyer or importCSV: each lead it adds is owned by the caller, has
\* status New and one history row, whose record tells the lead in full
CreatedAtCommit(p) ==
    Commits(p) /\ req[p].op \in {"create", "import"} =>
        \A i \in (Len(buyers) + 1)..Len(buyers') :
            /\ buyers'[i].ownerId = req[p].user.id
            /\ buyers'[i].status = Str("New")
            /\ Cardinality(LeadEntries(history', i)) = 1
            /\ \A j \in LeadEntries(history', i) :
                  IsCreatedEntry(history'[j]) /\ FullRecord(history'[j].diff["created"][2], buyers'[i])

\* a createBuyer call that ends in ValidationFailed leaves both tables as they were
FailedCreateInsertsNothing(p) ==
    result'[p] # result[p] /\ result'[p].op = "create" /\ result'[p].outcome = "ValidationFailed" =>
        buyers' = buyers /\ history' = history

\* C19: every lead, created by createBuyer or by importCSV, has at creation the caller
\* as ownerId, status New and exactly one history row, whose diff is the single key
\* created with [null, the full record]; in every state each lead has exactly one such
\* row and it is the earliest of its history; a create that fails validation inserts
\* neither a lead nor a history row.
C19_CreatedEntry ==
    /\ []CreatedEntryFirst
    /\ [][\A p \in Procs : CreatedAtCommit(p) /\ FailedCreateInsertsNothing(p)]_vars

\* a lead created by createBuyer and a lead created by importCSV, each with its
\* created entry
C19_Witness ==
    /\ Len(buyers) = 2 /\ Len(history) = 2
    /\ \E i, j \in 1..2 :
          /\ IsCreatedEntry(history[i]) /\ "ownerId" \in DOMAIN history[i].diff["created"][2]
          /\ IsCreatedEntry(history[j]) /\ "ownerId" \notin DOMAIN history[j].diff["created"][2]

-----------------------------------------------------------------------------
(* Properties of the frame of update *)

\* C20: a lead's id, ownerId and createdAt never change after creation: whatever
\* updateBuyer and updateBuyerStatus calls the owner or an admin makes, every lead keeps
\* its place in the table under its id, its ownerId and its createdAt.
C20_IdentityImmutable ==
    [][/\ Len(buyers') >= Len(buyers)
       /\ \A i \in 1..Len(buyers) :
             /\ buyers'[i].ownerId = buyers[i].ownerId
             /\ buyers'[i].createdAt = buyers[i].createdAt]_vars

\* a lead of u1 that the admin u3 changed after the millisecond of its creation
C20_Witness ==
    \E i \in 1..Len(buyers) :
        /\ buyers[i].ownerId = "u1"
        /\ buyers[i].updatedAt > buyers[i].createdAt
        /\ \E j \in 1..Len(history) :
              history[j].buyerId = i /\ history[j].changedBy = "u3" /\ ~IsCreatedEntry(history[j])

-----------------------------------------------------------------------------
(* Properties of the history *)

\* no row of the history is changed or removed by the step
HistoryKept == Len(history') >= Len(history) /\ SubSeq(history', 1, Len(history)) = history

\* the rows the step appends
Appended == (Len(history) + 1)..Len(history')

\* every appended row is written by a committing request and records its caller
AppendedByCaller ==
    \A j \in Appended :
        \E p \in Procs : Commits(p) /\ history'[j].changedBy = req[p].user.id

\* no appended row is stamped earlier than a row that was there before
AppendedInTimeOrder ==
    \A j \in Appended : \A k \in 1..Len(history) : history'[j].changedAt >= history[k].changedAt

\* every row names a lead of the table
HistoryReferencesLeads == \A j \in 1..Len(history) : history[j].buyerId \in 1..Len(buyers)

\* C21: the history is strictly append-only: no call changes or removes an existing row,
\* so each lead's history only grows; every row references an existing lead and records
\* the caller that acted; and the rows are ordered by creation time, each appended row
\* being stamped no earlier than the rows before it.
C21_HistoryAppendOnly ==
    /\ []HistoryReferencesLeads
    /\ [][HistoryKept /\ AppendedByCaller /\ AppendedInTimeOrder]_vars

-----------------------------------------------------------------------------
(* Properties of the status change *)

\* C22: updateBuyerStatus makes no optimistic-concurrency check: no call of it ends in
\* Conflict, and a call by a caller who may edit an existing lead goes from its select
\* to its transaction whatever the lead's updatedAt is, also when another call
\* committed an update since this caller last read the lead.
C22_StatusNeverConflicts ==
    [][\A p \in Procs :
          /\ result'[p] # result[p] /\ result'[p].op = "status" => result'[p].outcome # "Conflict"
          /\ /\ pc[p] = "load" /\ pc'[p] # "load" /\ req[p].op = "status"
             /\ req[p].buyerId \in 1..Len(buyers)
             /\ canEditBuyer(req[p].user, buyers[req[p].buyerId].ownerId)
             => pc'[p] = "tx"]_vars

\* a status change committed on a lead that another call updated while the status
\* change was between its select and its transaction's end: the update's history row
\* stands before the status row and is stamped later
C22_Witness ==
    \E p \in Procs :
        /\ result[p].op = "status" /\ result[p].outcome = "ok"
        /\ Len(history) = 3
        /\ "status" \in DOMAIN history[3].diff
        /\ "fullName" \in DOMAIN history[2].diff
        /\ history[2].changedAt > history[3].changedAt
        /\ buyers[1].status = Str("Qualified")

-----------------------------------------------------------------------------
(* Properties of the role *)

\* what the user record says now: a role claim equal to admin, or the demo admin address
IsAdminNow(u) ==
    \/ authUsers[u].user_metadata_role = "admin"
    \/ authUsers[u].app_metadata_role = "admin"
    \/ authUsers[u].email = demoAdminEmail

\* C23: authorization is evaluated afresh on every request: the caller of a request is
\* admin iff, when the request is made, a role claim of the user equals admin or the
\* email is the demo admin address; so a request to edit or view a lead of another
\* owner, made when the user is no admin (any more), is refused: the edit ends in
\* Forbidden with nothing written, the detail lookup finds nothing and the list
\* returns only the caller's own leads.
C23_AuthorizationFresh ==
    [][\A p \in Procs :
          /\ pc[p] = "idle" /\ pc'[p] = "load" =>
                (req'[p].user.isAdmin <=> IsAdminNow(req'[p].user.id))
          /\ /\ pc[p] = "load" /\ pc'[p] # "load"
             /\ req[p].buyerId \in 1..Len(buyers)
             /\ ~req[p].user.isAdmin
             /\ req[p].user.id # buyers[req[p].buyerId].ownerId
             => result'[p].outcome = "Forbidden" /\ buyers' = buyers /\ history' = history
          /\ \A s \in AuthSessions :
                /\ ~IsAdminNow(s) /\ buyers[1].ownerId # s /\ getBuyer(p, s, 1) =>
                      result'[p].outcome = "NotFound" /\ returned'[p].rows = <<>>
                /\ getBuyers(p, s, NoParams) =>
                      /\ returned'[p].user.isAdmin <=> IsAdminNow(s)
                      /\ ~IsAdminNow(s) =>
                            \A i \in 1..Len(returned'[p].rows) : returned'[p].rows[i].row.ownerId = s]_vars

\* u3 changed the lead of u1 as an admin, is no admin any more, and a later edit by
\* u3 ended in Forbidden
C23_Witness ==
    /\ Len(history) = 2 /\ history[2].changedBy = "u3"
    /\ ~IsAdminNow("u3")
    /\ result["p1"].op \in {"update", "status"} /\ result["p1"].outcome = "Forbidden"

-----------------------------------------------------------------------------
(* Properties of the order of the failures of updateBuyer *)

\* the request of a slot ends with this outcome in this step
EndsWith(p, outcome) ==
    pc'[p] = "idle" /\ result'[p].op = "update" /\ result'[p].outcome = outcome

\* C24: updateBuyer reports its failures in the order of its pipeline: Unauthenticated
\* before RateLimited before ValidationFailed before NotFound before Forbidden before
\* Conflict. A request with no session is Unauthenticated whatever else is wrong; one
\* of a caller at the threshold is RateLimited; an invalid one is ValidationFailed
\* also when its lead is missing; one for a missing lead is NotFound; one of a caller
\* who is neither owner nor admin is Forbidden also when its token is stale; only then
\* a stale token gives Conflict.
C24_ErrorOrder ==
    [][\A p \in Procs :
          /\ \A s \in OrderSessions, form \in OrderForms, id \in OrderIds,
                   token \in OrderTokens :
                /\ pc[p] = "idle" /\ now' = now
                /\ pc'[p] = "load" => req'[p].buyerId = id /\ req'[p].token = token
                /\ BeginUpdate(p, s, form, id, token)
                =>
                   IF Caller(s) = NoUser THEN EndsWith(p, "Unauthenticated")
                   ELSE IF AtThreshold(s) THEN EndsWith(p, "RateLimited")
                   ELSE IF ~updateBuyerSchema(rawData(form, TRUE), id, token).success
                   THEN EndsWith(p, "ValidationFailed")
                   ELSE pc'[p] = "load"
          /\ pc[p] = "load" /\ req[p].op = "update" /\ pc'[p] # "load" =>
                IF req[p].buyerId \notin 1..Len(buyers) THEN EndsWith(p, "NotFound")
                ELSE IF ~canEditBuyer(req[p].user, buyers[req[p].buyerId].ownerId)
                THEN EndsWith(p, "Forbidden")
                ELSE IF Truthy(req[p].token) /\ req[p].token.v # currentToken(req[p].buyerId)
                THEN EndsWith(p, "Conflict")
                ELSE pc'[p] = "tx"]_vars

\* the lead was changed since time 0, and the request of a caller who may not edit
\* it, made with the token of time 0, ended in Forbidden
C24_Witness ==
    /\ buyers[1].updatedAt > 0
    /\ result["p1"].op = "update" /\ result["p1"].outcome = "Forbidden"
    /\ result["p1"].token = Str(toISOString(0))

-----------------------------------------------------------------------------
(* Properties of the reset of the rate limiter *)

\* a request of u1 that calls checkRateLimit starts in this step
RequestOfU1(p) ==
    \/ BeginCreate(p, "u1", BaseForm)
    \/ BeginUpdate(p, "u1", [defaultValues(buyers[1]) EXCEPT !["fullName"] = "Bob"], 1, Str(""))
    \/ BeginStatus(p, "u1", 1, "Qualified")

\* the entry of u1 in the cache before and after the step
EntryOfU1 == rateLimitCache[cacheIndex(rateLimitCache, "rate_limit_u1")]

EntryOfU1After == rateLimitCache'[cacheIndex(rateLimitCache', "rate_limit_u1")]

\* more than a minute has passed since the last admitted request of u1, or the cache
\* holds no count of u1
MinutePassed ==
    \/ cacheIndex(rateLimitCache, "rate_limit_u1") = 0
    \/ now - EntryOfU1.start > rateLimitTtl

\* C25: the count of a caller resets one minute after the caller's last admitted
\* request. The count carries the time of the last admitted request: an admitted
\* request stamps it, a rejected one leaves count and time as they are, so rejected
\* requests do not postpone the reset. A caller at the threshold is rejected until the
\* minute has passed and admitted by the first request after it, which starts the
\* count again at one.
C25_ResetAfterLastAdmitted ==
    [][\A p \in Procs :
          RequestOfU1(p) =>
             IF MinutePassed
             THEN /\ pc'[p] # "idle"
                  /\ EntryOfU1After.value = 1 /\ EntryOfU1After.start = now
             ELSE IF EntryOfU1.value >= rateLimitMaxRequests
             THEN /\ pc'[p] = "idle" /\ result'[p].outcome = "RateLimited"
                  /\ EntryOfU1After.value = EntryOfU1.value
                  /\ EntryOfU1After.start = EntryOfU1.start
             ELSE /\ pc'[p] # "idle"
                  /\ EntryOfU1After.value = EntryOfU1.value + 1
                  /\ EntryOfU1After.start = now]_vars

\* u1, at the threshold since time 0, was admitted once more than the ttl had passed:
\* the next lead is created and the count of u1 is one again
C25_Witness ==
    /\ Len(buyers) = rateLimitMaxRequests + 1
    /\ buyers[rateLimitMaxRequests + 1].createdAt = rateLimitTtl + 1
    /\ cacheGet(rateLimitCache, "rate_limit_u1", now) = Num(1)

-----------------------------------------------------------------------------
(* Properties of the status column *)

\* every persisted lead has one of the seven values of the enum as its status
StatusInEnum ==
    \A i \in 1..Len(buyers) : buyers[i].status.k = "string" /\ buyers[i].status.v \in statusEnum

\* C26: in every reachable state the status of every persisted lead is one of the
\* seven values of the enum; updateBuyerStatus, which validates nothing, called with
\* any other string never commits: no step of such a call changes a lead or the
\* history, and the call ends in a failure.
C26_StatusEnumClosed ==
    /\ []StatusInEnum
    /\ [][\A p \in Procs :
             /\ req[p].op = "status" /\ req[p].status \notin statusEnum
             /\ pc'[p] # pc[p]
             => /\ buyers' = buyers /\ history' = history
                /\ pc'[p] # "txh"
                /\ pc'[p] = "idle" => result'[p].outcome # "ok"]_vars

\* a status change of an existing lead to a string outside the enum was rejected by
\* the database
C26_Witness ==
    /\ Len(buyers) >= 1
    /\ result["p1"].op = "status" /\ result["p1"].outcome = "PersistenceFailure"
    /\ StatusInEnum

-----------------------------------------------------------------------------
(* Properties of the diff of an update *)

\* C27: after every successful updateBuyer the diff it appended and the stored lead
\* agree: for each field the diff names, the stored value equals the new value of the
\* diff (absent for a field cleared to absent), and every tracked field the diff does
\* not name keeps the value it had before the commit.
C27_DiffMatchesStored ==
    [][\A p \in Procs :
          Commits(p) /\ req[p].op = "update" =>
             \A f \in FieldSet :
                IF f \in DOMAIN req[p].changes
                THEN SameValue(buyers'[req[p].buyerId][f], req[p].changes[f][2])
                ELSE buyers'[req[p].buyerId][f] = buyers[req[p].buyerId][f]]_vars

-----------------------------------------------------------------------------
(* Properties of the old values of a diff *)

\* C28: in every interleaving, for every history row that an update or a status
\* change appends, the old value the diff records for a field equals the value the
\* stored lead has in that field immediately before the commit of the row.
C28_OldValuesCurrent ==
    [][\A p \in Procs :
          Commits(p) /\ req[p].op \in {"update", "status"} /\ req[p].hasChanges =>
             \A f \in DOMAIN req[p].changes :
                SameValue(req[p].changes[f][1], buyers[req[p].buyerId][f])]_vars

-----------------------------------------------------------------------------
(* Properties of an update without a token *)

\* the form has no updatedAt entry, or an empty one
NoToken == {NULLV, Str("")}

\* C29: an updateBuyer call that submits no updatedAt token, or an empty one, skips
\* the concurrency check: when the caller is signed in and admitted and the rest of
\* the request is valid, the call passes validation; and when its lead exists and the
\* caller may edit it, the call goes on to its transaction whatever the lead's
\* updatedAt is by then, and the transaction commits.
C29_NoTokenSkipsCheck ==
    [][\A p \in Procs :
          /\ \A s \in OrderSessions, form \in OrderForms, id \in OrderIds, token \in NoToken :
                /\ pc[p] = "idle" /\ now' = now
                /\ Caller(s) # NoUser /\ ~AtThreshold(s)
                /\ updateBuyerSchema(rawData(form, TRUE), id, UNDEF).success
                /\ BeginUpdate(p, s, form, id, token)
                => pc'[p] = "load"
          /\ /\ pc[p] = "load" /\ req[p].op = "update" /\ req[p].token \in NoToken
             /\ pc'[p] # "load"
             /\ req[p].buyerId \in 1..Len(buyers)
             /\ canEditBuyer(req[p].user, buyers[req[p].buyerId].ownerId)
             => pc'[p] = "tx"
          /\ /\ pc[p] \in {"tx", "txh"} /\ req[p].op = "update" /\ req[p].token \in NoToken
             /\ pc'[p] = "idle"
             => result'[p].outcome = "ok"]_vars

-----------------------------------------------------------------------------
(* Properties of the counts of the rate limiter *)

\* the count of a caller: what checkRateLimit reads for the caller at time t
Count(cache, userId, t) ==
    LET got == cacheGet(cache, "rate_limit_" \o userId, t)
    IN IF Truthy(got) THEN got.v ELSE 0

\* the count of every caller but userId is after the step what it was before it
OthersUntouched(userId) ==
    /\ \A i \in 1..Len(rateLimitCache) :
          rateLimitCache[i].key # "rate_limit_" \o userId /\ ~cacheStale(rateLimitCache[i], now) =>
             LET j == cacheIndex(rateLimitCache', rateLimitCache[i].key)
             IN j # 0 /\ rateLimitCache'[j].value = rateLimitCache[i].value
                      /\ ~cacheStale(rateLimitCache'[j], now)
    /\ Len(rateLimitCache') <= Len(rateLimitCache) + 1

\* what a request of caller userId that reaches checkRateLimit does to the counts
CountsOneRequest(p, userId) ==
    /\ IF AtThreshold(userId)
       THEN /\ pc'[p] = "idle" /\ result'[p].outcome = "RateLimited"
            /\ Count(rateLimitCache', userId, now) = Count(rateLimitCache, userId, now)
       ELSE Count(rateLimitCache', userId, now) = Count(rateLimitCache, userId, now) + 1
    /\ OthersUntouched(userId)

\* C30: every create, update or status-change request of a signed-in caller that is
\* admitted adds exactly one to the caller's count, also when it then fails with
\* ValidationFailed, NotFound, Forbidden or Conflict; a request rejected as RateLimited
\* leaves the caller's count as it is; and no request changes the count of another
\* caller.
C30_CountPerAdmittedRequest ==
    [][\A p \in Procs :
          /\ RequestOfU1(p) => CountsOneRequest(p, "u1")
          /\ BeginCreate(p, Agent(cacheMax), [FullForm EXCEPT !.bhk = ""]) =>
                CountsOneRequest(p, Agent(cacheMax))]_vars

====
